---------------------------- MODULE Spec2Model ----------------------------
(***************************************************************************)
(* A model of demandlib: the calendar classification of tools.py, the      *)
(* BDEW 2025 profiles of bdew/_profiles25.py, the ElecSlp frame of         *)
(* bdew/elec_slp.py and the heat profile of bdew/heat_building.py.         *)
(*                                                                         *)
(* Time is counted in minutes since 2001-01-01 00:00 (a Monday); a date is *)
(* the number of days since 2001-01-01.  A DatetimeIndex with a constant   *)
(* step is the record [start, periods, freq] of pandas.date_range; row k   *)
(* (1-based) carries the timestamp start + (k-1)*freq.  Real numbers are   *)
(* exact fractions: a column is a sequence of numerators over one common   *)
(* denominator, so float rounding is not part of the model.                *)
(***************************************************************************)
EXTENDS Integers, Sequences, FiniteSets, TLC

VARIABLES
    wd_call,     \* arguments of the last tools.add_weekdays2df call
    wd_df,       \* the frame it returned: columns "weekday" and "date"
    p25,         \* a BDEW25 profile object and the arguments it was built from
    p25_short,   \* the profile built for a slice of p25's index
    selp_series, \* the table read from selp_series.csv
    slp,         \* the ElecSlp objects 1 and 2
    slp_ret,     \* the last call of a method of object 1 and what it returned
    shlp_hour_factors, \* the table read from shlp_hour_factors.csv
    heat,        \* a HeatBuilding object
    heat_ret,    \* the last call of a method of the object and what it returned
    region,      \* a vdi.Region object and the arguments it was built from
    region_ret,  \* the last call of a method of the region and what it returned
    ilp,         \* an IndustrialLoadProfile object
    ilp_ret      \* the last call of simple_profile and what it returned

vars == <<wd_call, wd_df, p25, p25_short, selp_series, slp, slp_ret,
          shlp_hour_factors, heat, heat_ret, region, region_ret, ilp, ilp_ret>>
vars_tools == <<wd_call, wd_df>>
vars_25 == <<p25, p25_short>>
vars_slp == <<selp_series, slp, slp_ret>>
vars_heat == <<shlp_hour_factors, heat, heat_ret>>
vars_vdi == <<region, region_ret>>
vars_ilp == <<ilp, ilp_ret>>

---------------------------------------------------------------------------
(* Calendar arithmetic of datetime / pandas.DatetimeIndex                   *)

\* calendar.isleap
IsLeap(y) == (y % 4 = 0 /\ y % 100 # 0) \/ y % 400 = 0

DaysInYear(y) == IF IsLeap(y) THEN 366 ELSE 365

DaysInMonth(y, m) ==
    IF m \in {4, 6, 9, 11} THEN 30
    ELSE IF m = 2 THEN (IF IsLeap(y) THEN 29 ELSE 28)
    ELSE 31

\* days from 2001-01-01 to January 1 of year y (2001 <= y <= 2100)
DaysBeforeYear(y) == (y - 2001) * 365 + (y - 2001) \div 4

\* days from January 1 of year y to the first of month m
DaysBeforeMonth(y, m) ==
    <<0, 31, 59, 90, 120, 151, 181, 212, 243, 273, 304, 334>>[m]
    + (IF m > 2 /\ IsLeap(y) THEN 1 ELSE 0)

\* datetime.date(y, m, d) as a day number
Date(y, m, d) == DaysBeforeYear(y) + DaysBeforeMonth(y, m) + d - 1

\* datetime.datetime(y, m, d, h, mi) as a minute number
DateTime(y, m, d, h, mi) == Date(y, m, d) * 1440 + h * 60 + mi

\* the year of a day number: four-year cycles of 1461 days from 2001
YearOfDate(n) ==
    LET r == (n % 1461) \div 365
    IN 2001 + 4 * (n \div 1461) + (IF r > 3 THEN 3 ELSE r)

\* DatetimeIndex.day_of_year, 1-based
DayOfYearOfDate(n) == n - DaysBeforeYear(YearOfDate(n)) + 1

MonthOfDate(n) ==
    LET y == YearOfDate(n)
        doy == DayOfYearOfDate(n)
    IN CHOOSE m \in 1..12 :
        DaysBeforeMonth(y, m) < doy /\ doy <= DaysBeforeMonth(y, m) + DaysInMonth(y, m)

DayOfDate(n) == DayOfYearOfDate(n) - DaysBeforeMonth(YearOfDate(n), MonthOfDate(n))

\* DatetimeIndex.date, .hour, .minute, .weekday (Monday = 0), .month
DateOf(t) == t \div 1440
HourOf(t) == (t % 1440) \div 60
MinuteOf(t) == t % 60
WeekdayOf(t) == DateOf(t) % 7
MonthOf(t) == MonthOfDate(DateOf(t))
DayOfYearOf(t) == DayOfYearOfDate(DateOf(t))

\* pandas.date_range(start, periods=periods, freq=freq)
DateRange(start, periods, freq) ==
    [start |-> start, periods |-> periods, freq |-> freq]

\* pandas.date_range(start=start, end=end, freq=freq): every stamp <= end
DateRangeTo(start, end, freq) ==
    DateRange(start, IF end < start THEN 0 ELSE (end - start) \div freq + 1, freq)

IndexAt(idx, k) == idx.start + (k - 1) * idx.freq
IndexLen(idx) == idx.periods
IndexRows(idx) == 1..idx.periods

\* idx[i:j] with 0 <= i <= j <= len(idx): rows i+1 .. j
IndexSlice(idx, i, j) == DateRange(idx.start + i * idx.freq, j - i, idx.freq)

RECURSIVE SumSeq(_)
SumSeq(s) == IF s = <<>> THEN 0 ELSE Head(s) + SumSeq(Tail(s))

---------------------------------------------------------------------------
(* tools.py                                                                 *)

\* holidays=None, or the dates of a list / the keys of a dictionary
NoHolidays == [given |-> FALSE, dates |-> {}]
Holidays(dates) == [given |-> TRUE, dates |-> dates]

\* a plausible slip: a holiday replaces working days only, not weekends
set_holidays_in_df_workdays(weekday, idx, holidays) ==
    IF holidays.given
    THEN [k \in IndexRows(idx) |->
            IF DateOf(IndexAt(idx, k)) \in holidays.dates /\ weekday[k] < 6
            THEN 0 ELSE weekday[k]]
    ELSE weekday

\* set_holidays_in_df: weekday 0 on every row whose date is a holiday
set_holidays_in_df(weekday, idx, holidays) ==
    IF holidays.given
    THEN [k \in IndexRows(idx) |->
            IF DateOf(IndexAt(idx, k)) \in holidays.dates THEN 0 ELSE weekday[k]]
    ELSE weekday

\* a plausible slip: holiday_is_sunday ignored, a holiday keeps class 0
add_weekdays2df_holiday0(idx, holidays, holiday_is_sunday) ==
    [weekday |-> set_holidays_in_df([k \in IndexRows(idx) |->
                                        WeekdayOf(IndexAt(idx, k)) + 1],
                                    idx, holidays),
     date |-> [k \in IndexRows(idx) |-> DateOf(IndexAt(idx, k))]]

\* add_weekdays2df(time_df, holidays, holiday_is_sunday)
add_weekdays2df(idx, holidays, holiday_is_sunday) ==
    LET weekday0 == [k \in IndexRows(idx) |-> WeekdayOf(IndexAt(idx, k)) + 1]
        date == [k \in IndexRows(idx) |-> DateOf(IndexAt(idx, k))]
        weekday1 == set_holidays_in_df(weekday0, idx, holidays)
        weekday2 == IF holiday_is_sunday
                    THEN [k \in IndexRows(idx) |->
                            IF weekday1[k] = 0 THEN 7 ELSE weekday1[k]]
                    ELSE weekday1
    IN [weekday |-> weekday2, date |-> date]

---------------------------------------------------------------------------
(* Exact fractions.  A denominator 0 stands for NaN.                        *)

Frac(n, d) == [n |-> n, d |-> d]
NaN == Frac(0, 0)
IsNaN(a) == a.d = 0
FracEq(a, b) ==
    /\ a.d # 0 /\ b.d # 0
    /\ IF a.d = b.d THEN a.n = b.n ELSE a.n * b.d = b.n * a.d

---------------------------------------------------------------------------
(* bdew/_profiles25.py                                                      *)

Classes25 == {"G25", "H25", "L25", "P25", "S25"}
Dynamic25 == {"H25", "P25", "S25"}

ClassNo25(cls) ==
    CASE cls = "G25" -> 1 [] cls = "H25" -> 2 [] cls = "L25" -> 3
      [] cls = "P25" -> 4 [] cls = "S25" -> 5

DayTypeNo25(daytype) ==
    CASE daytype = "WT" -> 0 [] daytype = "SA" -> 1 [] daytype = "FT" -> 2

\* the cell (month, day type) x (hour, quarter) of the class's csv file
\* (g25.csv, ...): the files are data, any table of this shape is an input
Csv25(cls, month, daytype, hour, minute) ==
    1 + ((ClassNo25(cls) * 7 + month * 3 + DayTypeNo25(daytype) * 5 + hour * 2
          + (minute \div 15) * (1 + (hour % 3))) % 9)

\* raw_profile_data: one row per month, day type, hour and quarter hour,
\* value = 4 * csv cell; no row for any other minute
HasRawProfileRow(month, daytype, hour, minute) ==
    /\ month \in 1..12 /\ daytype \in {"WT", "SA", "FT"}
    /\ hour \in 0..23 /\ minute \in {0, 15, 30, 45}

raw_profile_data(cls, month, daytype, hour, minute) ==
    4 * Csv25(cls, month, daytype, hour, minute)

\* a plausible slip: the day of week of the first row taken for every row
weekday25_first(idx15) ==
    [k \in IndexRows(idx15) |-> WeekdayOf(IndexAt(idx15, 1)) + 1]

\* "weekday": timeindex15m.day_of_week + 1
weekday25(idx15) ==
    [k \in IndexRows(idx15) |-> WeekdayOf(IndexAt(idx15, k)) + 1]

\* new_df.replace: 1..5 -> WT, 6 -> SA, 0 (holiday) and 7 -> FT
DayType25(w) == IF w \in 1..5 THEN "WT" ELSE IF w = 6 THEN "SA" ELSE "FT"

\* Fixed-point value, in units of 1e-4, of
\*   -3.92e-10 d^4 + 3.2e-7 d^3 - 7.02e-5 d^2 + 0.0021 d + 1.24
\* for the day of the year d; every term is truncated to that unit
DynScale == 10000

dynamisation_function(t) ==
    LET d == DayOfYearOf(t)
    IN 12400 + 21 * d - ((702 * d * d) \div 1000) + ((32 * d * d * d) \div 10000)
       - ((392 * ((((d * d * d) \div 10000)) * d)) \div 10000)

\* values.resample(delta).mean() read at the label t: bins of width delta
\* counted from midnight of the first day, closed on the left; the mean of
\* the 15-minute rows in the bin, NaN when t is no bin label
ResampleMean(values15, idx15, delta, t) ==
    LET origin == DateOf(IndexAt(idx15, 1)) * 1440
        inbin == {k \in IndexRows(idx15) :
                    t <= IndexAt(idx15, k) /\ IndexAt(idx15, k) < t + delta}
        RECURSIVE Total(_)
        Total(S) == IF S = {} THEN 0
                    ELSE LET k == CHOOSE x \in S : TRUE
                         IN values15[k] + Total(S \ {k})
    IN IF (t - origin) % delta # 0 \/ inbin = {} THEN NaN
       ELSE Frac(Total(inbin), Cardinality(inbin))

\* a plausible slip: reindex(timeindex, method="nearest")
ReindexNearest(values15, idx15, t) ==
    LET k == ((t - idx15.start + 7) \div 15) + 1
    IN IF t < idx15.start \/ idx15.periods = 0 THEN NaN
       ELSE Frac(values15[IF k > idx15.periods THEN idx15.periods ELSE k], 1)

\* values.reindex(timeindex, method="ffill") read at t: the last 15-minute
\* row at or before t, NaN before the first row
ReindexFfill(values15, idx15, t) ==
    LET k == ((t - idx15.start) \div 15) + 1
    IN IF t < idx15.start \/ idx15.periods = 0 THEN NaN
       ELSE Frac(values15[IF k > idx15.periods THEN idx15.periods ELSE k], 1)

\* BDEW25Profile.__init__; DynamicBDEW25Profile.__init__ for H25, P25, S25
BDEW25Profile(cls, timeindex, holidays) ==
    IF timeindex.freq # 15 /\ timeindex.periods = 0
    THEN [status |-> "IndexError", values |-> <<>>]       \* timeindex[0]
    ELSE
    LET idx15 == IF timeindex.freq = 15 THEN timeindex
                 ELSE DateRangeTo(IndexAt(timeindex, 1),
                                  IndexAt(timeindex, timeindex.periods), 15)
        weekday == set_holidays_in_df(weekday25(idx15), idx15, holidays)
        matched == {k \in IndexRows(idx15) :
                      HasRawProfileRow(MonthOf(IndexAt(idx15, k)), DayType25(weekday[k]),
                                       HourOf(IndexAt(idx15, k)), MinuteOf(IndexAt(idx15, k)))}
        \* the inner merge keeps the matched rows in the order of the left frame
        values15 == [k \in matched |->
                       raw_profile_data(cls, MonthOf(IndexAt(idx15, k)),
                                        DayType25(weekday[k]),
                                        HourOf(IndexAt(idx15, k)),
                                        MinuteOf(IndexAt(idx15, k)))]
        value(t) == IF timeindex.freq > 15
                    THEN ResampleMean(values15, idx15, timeindex.freq, t)
                    ELSE ReindexFfill(values15, idx15, t)
        dyn(t, v) == IF cls \in Dynamic25 /\ ~IsNaN(v)
                     THEN Frac(v.n * dynamisation_function(t), v.d * DynScale)
                     ELSE v
    IN IF Cardinality(matched) # idx15.periods
       THEN [status |-> "ValueError", values |-> <<>>]    \* set_index: length mismatch
       ELSE [status |-> "ok",
             values |-> [k \in IndexRows(timeindex) |->
                           dyn(IndexAt(timeindex, k), value(IndexAt(timeindex, k)))]]

---------------------------------------------------------------------------
(* bdew/elec_slp.py                                                         *)

\* slp_types of all_load_profiles, in the order of the frame's columns
SlpTypes == <<"h0", "g0", "g1", "g2", "g3", "g4", "g5", "g6", "l0", "l1", "l2">>

SeqToSet(s) == {s[i] : i \in DOMAIN s}

ColNo(c) ==
    CASE c = "h0" -> 1 [] c = "g0" -> 2 [] c = "g1" -> 3 [] c = "g2" -> 4
      [] c = "g3" -> 5 [] c = "g4" -> 6 [] c = "g5" -> 7 [] c = "g6" -> 8
      [] c = "l0" -> 9 [] c = "l1" -> 10 [] c = "l2" -> 11

\* the "period" column of selp_series.csv
Periods == {"summer", "transition", "winter"}

PeriodNo(period) ==
    CASE period = "summer" -> 0 [] period = "transition" -> 1 [] period = "winter" -> 2

\* p[:-1]: the season key without its last character
PeriodOf(key) ==
    CASE key \in {"summer1", "summer2"} -> "summer"
      [] key \in {"transition1", "transition2"} -> "transition"
      [] key \in {"winter1", "winter2"} -> "winter"
      [] OTHER -> "other"

\* The cell of selp_series.csv for a profile, period, weekday (1..7) and
\* quarter hour.  The file is data: the model knows two tables of its shape,
\* one ("distinct") with a different factor for every weekday, one ("flat")
\* whose g3 (continuous business) factors do not depend on the weekday.
SelpTables == {"distinct", "flat"}

SelpCell(tbl, col, period, weekday, hour, minute) ==
    LET w == IF tbl = "flat" /\ col = "g3" THEN 0 ELSE weekday
    IN 1 + ((ColNo(col) * 3 + PeriodNo(period) * 2 + w
             + (hour \div 6) * (1 + (ColNo(col) % 2)) + (minute \div 15)) % 7)

\* rows of the table: 3 periods x 7 weekdays x 96 quarter hours
HasSelpRow(period, weekday, hour, minute) ==
    /\ period \in Periods /\ weekday \in 1..7
    /\ hour \in 0..23 /\ minute \in {0, 15, 30, 45}

\* self._seasons of __init__: a dictionary in insertion order
Season(key, m1, d1, m2, d2) == [key |-> key, range |-> <<m1, d1, m2, d2>>]

DefaultSeasons ==
    << Season("summer1", 5, 15, 9, 14),
       Season("transition1", 3, 21, 5, 14),
       Season("transition2", 9, 15, 10, 31),
       Season("winter1", 1, 1, 3, 20),
       Season("winter2", 11, 1, 12, 31) >>

\* seasons=None, or a dictionary
NoSeasons == [given |-> FALSE, items |-> <<>>]
Seasons(items) == [given |-> TRUE, items |-> items]

\* dict[key] = value: an existing key keeps its place, a new key is appended
DictSet(dict, e) ==
    IF \E i \in DOMAIN dict : dict[i].key = e.key
    THEN [i \in DOMAIN dict |-> IF dict[i].key = e.key THEN e ELSE dict[i]]
    ELSE Append(dict, e)

\* a plausible slip: self._seasons = seasons
SeasonsReplace(dict, seasons) ==
    IF seasons.given THEN seasons.items ELSE dict

\* if seasons is not None: self._seasons.update(seasons)
RECURSIVE DictUpdate(_, _)
DictUpdate(dict, items) ==
    IF items = <<>> THEN dict
    ELSE DictUpdate(DictSet(dict, Head(items)), Tail(items))

SeasonsUpdate(dict, seasons) ==
    IF seasons.given THEN DictUpdate(dict, seasons.items) ELSE dict

\* a = datetime(year, m1, d1, 0, 0); b = datetime(year, m2, d2, 23, 59)
SeasonStart(year, e) == DateTime(year, e.range[1], e.range[2], 0, 0)
\* a plausible slip: the slice ends at 00:00 of the last day
SeasonEndAtMidnight(year, e) == DateTime(year, e.range[3], e.range[4], 0, 0)

SeasonEnd(year, e) == DateTime(year, e.range[3], e.range[4], 23, 59)

\* for p in self._seasons.keys(): the period p[:-1] and the slice a..b
RECURSIVE SeasonSlices(_, _)
SeasonSlices(year, seasons) ==
    IF seasons = <<>> THEN <<>>
    ELSE <<[period |-> PeriodOf(Head(seasons).key),
            a |-> SeasonStart(year, Head(seasons)),
            b |-> SeasonEnd(year, Head(seasons))]>>
         \o SeasonSlices(year, Tail(seasons))

\* a plausible slip: the first entry that contains the row wins
RECURSIVE SeasonLoopFirst(_, _, _, _)
SeasonLoopFirst(slices, i, weekday, t) ==
    IF i = 0 THEN 0
    ELSE IF SeasonLoopFirst(slices, i - 1, weekday, t) # 0
         THEN SeasonLoopFirst(slices, i - 1, weekday, t)
         ELSE IF /\ slices[i].a <= t
                 /\ t <= slices[i].b
                 /\ HasSelpRow(slices[i].period, weekday, HourOf(t), MinuteOf(t))
              THEN i
              ELSE 0

\* The loop over self._seasons.keys() for one row: the number of the last
\* of the first i entries whose slice time_df[a:b] contains the row and
\* whose period has a table row for the row's weekday, hour and minute;
\* 0 when there is none.  new_df.update leaves the row with the merged
\* row of that entry.
RECURSIVE SeasonLoop(_, _, _, _)
SeasonLoop(slices, i, weekday, t) ==
    IF i = 0 THEN 0
    ELSE IF /\ slices[i].a <= t
            /\ t <= slices[i].b
            /\ HasSelpRow(slices[i].period, weekday, HourOf(t), MinuteOf(t))
         THEN i
         ELSE SeasonLoop(slices, i - 1, weekday, t)

\* sum of a column over the rows lo..hi of a row-major table
RECURSIVE SumRows(_, _, _, _)
SumRows(data, col, lo, hi) ==
    IF lo > hi THEN 0
    ELSE IF lo = hi THEN data[lo][col]
    ELSE LET mid == (lo + hi) \div 2
         IN SumRows(data, col, lo, mid) + SumRows(data, col, mid + 1, hi)

\* a plausible slip: new_df.div(new_df.sum().sum()), one sum for the frame
SumOfFrame(data, cols, n) ==
    LET RECURSIVE Total(_)
        Total(S) == IF S = {} THEN 0
                    ELSE LET c == CHOOSE x \in S : TRUE
                         IN SumRows(data, c, 1, n) + Total(S \ {c})
    IN [c \in cols |-> Total(cols)]

\* new_df.sum(axis=0): the rows added up, column by column
SumOfColumns(data, cols, n) ==
    LET RECURSIVE Sum(_, _)
        Sum(lo, hi) ==
            IF lo = hi THEN data[lo]
            ELSE LET mid == (lo + hi) \div 2
                     x == Sum(lo, mid)
                     y == Sum(mid + 1, hi)
                 IN [c \in cols |-> x[c] + y[c]]
    IN IF n = 0 THEN [c \in cols |-> 0] ELSE Sum(1, n)

\* create_bdew_load_profiles(dt_index, slp_types, holidays).  A frame is
\* [index, columns, data, den]: the value in row k of column c is
\* data[k][c] / den[c], NaN when den[c] = 0.  A row outside every season
\* keeps the 0 of fillna(0).
create_bdew_load_profiles(tbl, year, seasons, dt_index, slp_types, holidays) ==
    LET cols == SeqToSet(slp_types)
        time_df == add_weekdays2df(dt_index, holidays, TRUE)
        slices == SeasonSlices(year, seasons)
        data == [k \in IndexRows(dt_index) |->
                   LET t == IndexAt(dt_index, k)
                       weekday == time_df.weekday[k]
                       i == SeasonLoop(slices, Len(slices), weekday, t)
                   IN [c \in cols |->
                         IF i = 0 THEN 0
                         ELSE SelpCell(tbl, c, slices[i].period, weekday,
                                       HourOf(t), MinuteOf(t))]]
    IN [index |-> dt_index, columns |-> slp_types, data |-> data,
        den |-> SumOfColumns(data, cols, dt_index.periods)]

\* all_load_profiles(time_df, holidays)
all_load_profiles(tbl, year, seasons, time_df, holidays) ==
    create_bdew_load_profiles(tbl, year, seasons, time_df, SlpTypes, holidays)

\* The frame of an ElecSlp object has 96 rows a day.  The model keeps
\* SamplesPerDay of them: every RowStride-th row of the 15-minute index.
SamplesPerDay == 2
RowStride == 96 \div SamplesPerDay

SampledIndex(idx) ==
    DateRange(idx.start, idx.periods \div RowStride, idx.freq * RowStride)

\* a plausible slip: 8760 hours whatever the year
hoy_nonleap(year) == 8760

\* hoy of __init__
hoy(year) == IF IsLeap(year) THEN 8784 ELSE 8760

\* Fixed-point value, in units of 1e-4, of the smoothing factor
\*   -3.916649251e-10 t^4 + 3.2e-7 t^3 - 7.02e-5 t^2 + 0.0021 t + 1.24
\* for the decimal day t = (q + 1) / 96 of row q (0-based) of the frame
smoothing_factor(q) ==
    LET n == q + 1
        t2 == (n * n) \div 9216
        t3 == ((t2 \div 8) * n) \div 12
        t4 == ((t3 \div 10000) * n) \div 96
    IN 12400 + ((21 * n) \div 96) - ((702 * t2) \div 1000) + ((32 * t3) \div 10000)
       - ((3917 * (t4 \div 10)) \div 10000)

\* create_dynamic_h0_profile: slp_frame["h0_dyn"] = slp_frame["h0"] * smoothing_factor
create_dynamic_h0_profile(frame) ==
    LET cols == SeqToSet(frame.columns) \cup {"h0_dyn"}
    IN [index |-> frame.index,
        columns |-> IF "h0_dyn" \in SeqToSet(frame.columns) THEN frame.columns
                    ELSE Append(frame.columns, "h0_dyn"),
        data |-> [k \in IndexRows(frame.index) |->
                    [c \in cols |->
                       IF c = "h0_dyn"
                       THEN frame.data[k]["h0"] * smoothing_factor((k - 1) * RowStride)
                       ELSE frame.data[k][c]]],
        den |-> [c \in cols |-> IF c = "h0_dyn" THEN frame.den["h0"] * DynScale
                                ELSE frame.den[c]]]

\* ElecSlp.__init__(year, seasons, holidays)
ElecSlp(tbl, year, seasons, holidays) ==
    LET date_time_index == DateRange(DateTime(year, 1, 1, 0, 0), hoy(year) * 4, 15)
        _seasons == SeasonsUpdate(DefaultSeasons, seasons)
        slp_frame == all_load_profiles(tbl, year, _seasons,
                                       SampledIndex(date_time_index), holidays)
    IN [op |-> "init", year |-> year, seasons |-> seasons, holidays |-> holidays,
        _year |-> year, _seasons |-> _seasons, date_time_index |-> date_time_index,
        slp_frame |-> create_dynamic_h0_profile(slp_frame)]

\* the columns of frame.multiply(pd.Series(demand), axis=1).dropna(how="all", axis=1):
\* a column stays when it is a column of the frame and a key of the mapping
\* and is not NaN throughout; the alignment of the frame's columns with the
\* keys of the mapping leaves the columns sorted
SortedColumns ==
    <<"g0", "g1", "g2", "g3", "g4", "g5", "g6", "h0", "h0_dyn", "l0", "l1", "l2">>

ScaledColumns(frame, demand) ==
    SelectSeq(SortedColumns,
              LAMBDA c : /\ c \in SeqToSet(frame.columns)
                         /\ c \in DOMAIN demand
                         /\ frame.den[c] # 0)

\* a variant that keeps every column of the frame and fills the columns
\* without an annual value with zeros
get_scaled_profiles_fill(frame, demand) ==
    [index |-> frame.index, columns |-> SortedColumns,
     data |-> [k \in IndexRows(frame.index) |->
                 [c \in SeqToSet(SortedColumns) |->
                    IF c \in DOMAIN demand THEN frame.data[k][c] * demand[c] ELSE 0]],
     den |-> [c \in SeqToSet(SortedColumns) |-> frame.den[c]]]

\* get_scaled_profiles(ann_el_demand_per_sector)
get_scaled_profiles(frame, demand) ==
    LET columns == ScaledColumns(frame, demand)
    IN [index |-> frame.index, columns |-> columns,
        data |-> [k \in IndexRows(frame.index) |->
                    [c \in SeqToSet(columns) |-> frame.data[k][c] * demand[c]]],
        den |-> [c \in SeqToSet(columns) |-> frame.den[c]]]

\* get_scaled_power_profiles(ann_el_demand_per_sector, conversion_factor)
get_scaled_power_profiles(frame, demand, conversion_factor) ==
    LET scaled == get_scaled_profiles(frame, demand)
    IN [scaled EXCEPT !.data =
          [k \in IndexRows(frame.index) |->
             [c \in SeqToSet(scaled.columns) |-> scaled.data[k][c] * conversion_factor]]]

\* get_profile(ann_el_demand_per_sector), deprecated: the same expression * 4
get_profile(frame, demand) ==
    LET scaled == get_scaled_profiles(frame, demand)
    IN [scaled EXCEPT !.data =
          [k \in IndexRows(frame.index) |->
             [c \in SeqToSet(scaled.columns) |-> scaled.data[k][c] * 4]]]

---------------------------------------------------------------------------
(* bdew/heat_building.py                                                    *)

ShlpTypeNo(shlp_type) ==
    CASE shlp_type = "EFH" -> 1 [] shlp_type = "MFH" -> 2
      [] shlp_type = "GHD" -> 3 [] shlp_type = "GKO" -> 4

\* the rows of the csv files: building classes 1..11 for EFH and MFH,
\* building class 0 for every other type
HasShlpRows(building_class, shlp_type) ==
    IF shlp_type \in {"EFH", "MFH"} THEN building_class \in 1..11
    ELSE building_class = 0

\* The cell of shlp_hour_factors.csv for a hour of the day (1..24) and a
\* temperature interval (1..10), in units of 1/SfScale.  The file is data:
\* the model knows two tables of its shape, one ("unit") whose interval
\* columns sum to 1 over the 24 hours, one ("skewed") whose columns do not.
HourFactorTables == {"unit", "skewed"}

SfScale == 240

HourFactorCell(tbl, building_class, shlp_type, weekday, hour_of_day, interval) ==
    LET p == 1 + ((interval + ShlpTypeNo(shlp_type) + building_class + weekday) % 5)
    IN 10 + (IF hour_of_day \in 7..12 THEN p
             ELSE IF hour_of_day \in 13..18 THEN 0 - p ELSE 0)
          + (IF tbl = "skewed" /\ hour_of_day = 24 THEN 1 ELSE 0)

\* sum of the elements lo..hi of a sequence
RECURSIVE SumRange(_, _, _)
SumRange(s, lo, hi) ==
    IF lo > hi THEN 0
    ELSE IF lo = hi THEN s[lo]
    ELSE LET mid == (lo + hi) \div 2
         IN SumRange(s, lo, mid) + SumRange(s, mid + 1, hi)

\* str.upper() of the spellings of a profile type that are given to the
\* constructor; a string without lower-case letters is returned as it is
str_upper(s) ==
    CASE s = "efh" -> "EFH"
      [] s = "Mfh" -> "MFH"
      [] s = "ghd" -> "GHD"
      [] OTHER -> s

\* a plausible slip: only EFH counts as a residential building
building_class_refused_efh(shlp_type, building_class) ==
    shlp_type # "EFH" /\ building_class # 0

\* "if (self.shlp_type not in ['EFH', 'MFH']) and (self.building_class != 0)"
building_class_refused(shlp_type, building_class) ==
    shlp_type \notin {"EFH", "MFH"} /\ building_class # 0

\* an optional argument: None, or a value
NoneArg == [given |-> FALSE, v |-> 0]
Given(v) == [given |-> TRUE, v |-> v]

\* HeatBuilding.__init__: the frame of the index with the columns weekday
\* (a holiday is a Sunday) and hour = index.hour + 1; the column
\* temperature_geo of the frame is written by get_normalized_bdew_profile
HeatBuilding(df_index, temperature, annual_heat_demand, shlp_type, wind_class, building_class, ww_incl, holidays) ==
    IF building_class_refused(str_upper(shlp_type), building_class)
    THEN [op |-> "init", status |-> "ValueError",
          kwargs |-> [shlp_type |-> shlp_type, building_class |-> building_class]]
    ELSE [op |-> "init", status |-> "ok",
          kwargs |-> [shlp_type |-> shlp_type, building_class |-> building_class],
          df_index |-> df_index,
          weekday |-> add_weekdays2df(df_index, holidays, TRUE).weekday,
          hour |-> [k \in IndexRows(df_index) |-> HourOf(IndexAt(df_index, k)) + 1],
          temperature |-> temperature,
          annual_heat_demand |-> annual_heat_demand,
          shlp_type |-> str_upper(shlp_type), wind_class |-> wind_class,
          building_class |-> building_class, ww_incl |-> ww_incl,
          holidays |-> holidays, temperature_geo |-> NoneArg]

\* a plausible slip: the hourly temperature instead of the daily mean
daily_mean_hourly(self, k) == 24 * self.temperature[k]

\* df["temperature"].resample("D").mean().reindex(df.index).ffill().bfill()
\* at row k, in units of 1/24, for an index that starts at midnight: the
\* mean of the rows of the day of row k
daily_mean(self, k) ==
    LET n == self.df_index.periods
        lo == k - (self.hour[k] - 1)
        hi == IF lo + 23 > n THEN n ELSE lo + 23
    IN SumRange(self.temperature, lo, hi) * (24 \div (hi - lo + 1))

\* np.roll(temperature, shift)[k]
Roll(n, k, shift) == ((k - 1 - shift) % n) + 1

\* the array of the values lo..hi of a series
RECURSIVE ToArray(_, _, _)
ToArray(f, lo, hi) ==
    IF lo > hi THEN <<>>
    ELSE IF lo = hi THEN <<f[lo]>>
    ELSE LET mid == (lo + hi) \div 2
         IN ToArray(f, lo, mid) \o ToArray(f, mid + 1, hi)

\* weighted_temperature(how="geometric_series") at row k, in units of 1/360,
\* from the series temperature of the daily means:
\* (T + 0.5 roll(T, 24) + 0.25 roll(T, 48) + 0.125 roll(T, 72)) / 1.875
weighted_temperature(temperature, n, k) ==
    8 * temperature[k] + 4 * temperature[Roll(n, k, 24)]
    + 2 * temperature[Roll(n, k, 48)] + temperature[Roll(n, k, 72)]

\* df["temperature"] = temperature.values and df["temperature_geo"] =
\* weighted_temperature(how="geometric_series"): the column temperature_geo
df_temperature_geo(self) ==
    LET rows == IndexRows(self.df_index)
        n == self.df_index.periods
        temperature == ToArray([k \in rows |-> daily_mean(self, k)], 1, n)
    IN ToArray([k \in rows |-> weighted_temperature(temperature, n, k)], 1, n)

\* ceil(i) for i in df["temperature_geo"]
temperature_rounded(temperature_geo) == 0 - ((0 - temperature_geo) \div 360)

\* a plausible slip: a value outside -20..40 is clamped to the nearest key
HasIntervalClamped(rounded) == rounded \in (0 - 60)..60

\* the dictionary intervals of get_temperature_interval: keys -20..40
HasInterval(rounded) == rounded \in (0 - 20)..40

intervals(rounded) ==
    IF rounded <= 0 - 15 THEN 1
    ELSE IF rounded >= 26 THEN 10
    ELSE ((rounded + 14) \div 5) + 2

\* get_sf_values at row k: the cell of the row's hour (and weekday, when
\* building_class is 0) in the column of the row's temperature interval
get_sf_values(tbl, self, k, interval) ==
    HourFactorCell(tbl, self.building_class, self.shlp_type,
                   IF self.building_class > 0 THEN 0 ELSE self.weekday[k],
                   self.hour[k], interval)

\* get_sigmoid_parameters: the one row of shlp_sigmoid_factors.csv for the
\* building class, type and wind class; a and d in units of 1/100
HasSigmoidRow(self) ==
    HasShlpRows(self.building_class, self.shlp_type) /\ self.wind_class \in {0, 1}

get_sigmoid_parameters(self) ==
    [a |-> 300 + 10 * ShlpTypeNo(self.shlp_type),
     b |-> 0 - (34 + self.wind_class + ShlpTypeNo(self.shlp_type)),
     c |-> 1 + ((self.building_class + ShlpTypeNo(self.shlp_type)) % 2),
     d |-> IF self.ww_incl THEN 5 + ShlpTypeNo(self.shlp_type) ELSE 0]

\* get_weekday_parameters at row k: wochentagsfaktor of the row's weekday in
\* shlp_weekday_factors.csv, in units of 1/10
get_weekday_parameters(self, k) ==
    9 + ((ShlpTypeNo(self.shlp_type) + self.weekday[k]) % 3)

\* x ** c for a fixed-point x in units of 1/100
RECURSIVE PowFix(_, _)
PowFix(x, c) == IF c = 0 THEN 100 ELSE (PowFix(x, c - 1) * x) \div 100

\* h = a / (1 + (b / (temperature_geo - 40)) ** c) + d, in units of 1/100;
\* the quotient is rounded up, so that a value that is positive in the code
\* is positive here
SigmoidH(par, temperature_geo) ==
    IF temperature_geo = 14400 THEN par.d
    ELSE LET x == (36000 * (0 - par.b)) \div (14400 - temperature_geo)
         IN (par.a * 100 + 99 + PowFix(x, par.c)) \div (100 + PowFix(x, par.c)) + par.d

\* get_normalized_bdew_profile: kw = 1 / (sum(h * f) / 24), profile =
\* kw * h * f * sf.  The value of row k is num[k] / den.
get_normalized_bdew_profile(tbl, self) ==
    LET rows == IndexRows(self.df_index)
        n == self.df_index.periods
        temperature_geo == df_temperature_geo(self)
        rounded == [k \in rows |-> temperature_rounded(temperature_geo[k])]
        par == get_sigmoid_parameters(self)
        hf == ToArray([k \in rows |->
                         SigmoidH(par, temperature_geo[k])
                         * get_weekday_parameters(self, k)], 1, n)
        written == [self EXCEPT !.temperature_geo = Given(temperature_geo)]
    IN IF \E k \in rows : ~HasInterval(rounded[k])
       THEN [status |-> "KeyError", self |-> written]
       ELSE IF ~HasSigmoidRow(self)
       THEN [status |-> "ValueError", self |-> written]
       ELSE [status |-> "ok", self |-> written,
             num |-> [k \in rows |->
                        24 * hf[k] * get_sf_values(tbl, self, k, intervals(rounded[k]))],
             den |-> SumRange(hf, 1, self.df_index.periods) * SfScale]

\* get_bdew_profile: get_normalized_bdew_profile() * annual_heat_demand
get_bdew_profile(tbl, self) ==
    LET normalized == get_normalized_bdew_profile(tbl, self)
    IN IF normalized.status # "ok" THEN normalized
       ELSE [normalized EXCEPT !.num =
                [k \in IndexRows(self.df_index) |->
                    normalized.num[k] * self.annual_heat_demand]]

---------------------------------------------------------------------------
(* vdi/regions.py                                                           *)

\* h.get(key, default) of a dictionary h
Get(h, key, default) == IF key \in DOMAIN h THEN h[key] ELSE default

\* dict[key] = value of a dictionary kept as a function
Put(dict, key, value) ==
    [x \in DOMAIN dict \cup {key} |-> IF x = key THEN value ELSE dict[x]]

EmptyDict == [x \in {} |-> 0]

\* namedtuple("temperature_limit", "summer winter")
t_limit(summer, winter) == [summer |-> summer, winter |-> winter]

\* the three letters of a day-type code and the ten codes of VDI 4655
Typtag(season, day_of_week, cloud_category) == <<season, day_of_week, cloud_category>>

TyptagCodes ==
    { Typtag("S", d, "X") : d \in {"W", "S"} }
    \cup { Typtag(s, d, c) : s \in {"W", "U"}, d \in {"W", "S"}, c \in {"B", "H"} }

\* rows of a TRY2010_xx_Jahr.dat file: the hours of the reference year
TryRows == 8760

\* columns t and N of the file of a TRY region in hour h (0-based) of the
\* reference year: a cold start and end of the year and a warm middle;
\* the cloud cover has a daily mean of 5, of 4.5 or of 7.5 octas
TryCell(try_region, col, h) ==
    LET d == h \div 24
        away == IF d < 182 THEN 182 - d ELSE d - 182
    IN IF col = "TAMB"
       THEN 21 - away \div 9 + (h % 24) \div 12 + (try_region % 2)
       ELSE CASE (d + try_region + 1) % 3 = 0 -> 4 + 2 * (h % 2)
              [] (d + try_region + 1) % 3 = 1 -> 4 + (h % 2)
              [] OTHER -> 8 - (h % 2)

\* sum of a column of the file over the hours lo..hi
RECURSIVE SumTry(_, _, _, _)
SumTry(try_region, col, lo, hi) ==
    IF lo > hi THEN 0
    ELSE TryCell(try_region, col, lo) + SumTry(try_region, col, lo + 1, hi)

\* the columns F_el_n_TT, F_Heiz_n_TT, F_TWW_n_TT of VDI_4655_Typtage.csv
\* are renamed to the energy columns of the load curve
EnergyColumns == {"Q_Heiz_TT", "W_TT", "Q_TWW_TT"}

\* the three factor rows of a house type in VDI_4655_Typtag-Faktoren.csv
FactorNames == {"F_Heiz_TT", "F_el_TT", "F_TWW_TT"}

HouseTypes == {"EFH", "MFH"}

\* The energy factors are numerators over 365 * EfScale, so that the
\* term 1.0 / 365.0 of the daily demand is EfScale over the same
\* denominator
EfScale == 4
EfDen == 365 * EfScale

\* a cell of an energy-factor table (house type, factor, day type): the
\* heating factor is the largest in winter, the electricity and hot
\* water factors are variations around the yearly mean and negative for
\* some day types
EnergyFactorCell(shift, house_type, name, typtag) ==
    LET season == typtag[1]
        sunday == IF typtag[2] = "S" THEN 1 ELSE 0
        covered == IF typtag[3] = "B" THEN 1 ELSE 0
    IN CASE name = "F_Heiz_TT" ->
              (CASE season = "W" -> 3 [] season = "U" -> 2 [] OTHER -> 1)
              + covered + shift
         [] name = "F_el_TT" ->
              (CASE season = "W" -> 1 [] season = "U" -> 0 [] OTHER -> -1)
              + sunday * shift
         [] OTHER ->
              (CASE season = "S" -> -1 [] OTHER -> sunday)
              + (IF house_type = "MFH" THEN covered ELSE 0)

\* a whole table, as read from the csv file for a TRY region or as given
\* by the caller
EnergyFactorTable(shift) ==
    [key \in HouseTypes \X FactorNames \X TyptagCodes |->
        EnergyFactorCell(shift, key[1], key[2], key[3])]

\* pd.read_csv(fn_energy_factors, index_col=[0, 1, 2]).loc[self._try_region]
ReadEnergyFactors(try_region) == EnergyFactorTable(try_region % 2)

\* self.hoy of Region.__init__
Region_hoy(year) == IF IsLeap(year) THEN 8784 ELSE 8760

\* _get_temperature_level_combinations
_get_temperature_level_combinations(self) ==
    { t_limit(Get(self.houses[i], "summer_temperature_limit", 15),
              Get(self.houses[i], "winter_temperature_limit", 5)) :
        i \in DOMAIN self.houses }

\* add_houses(houses): houses of another type than EFH or MFH are taken
\* out with a UserWarning; the warnings are the types warned about
add_houses(self, houses) ==
    LET houses_wrong == SelectSeq(houses, LAMBDA h : h["house_type"] \notin HouseTypes)
        houses_ok == SelectSeq(houses, LAMBDA h : h["house_type"] \in HouseTypes)
        extended == self.houses \o houses_ok
        added == [self EXCEPT !.houses = extended]
    IN [status |-> "ok",
        self |-> [added EXCEPT !.temperature_limits =
                                   _get_temperature_level_combinations(added)],
        warnings |-> { <<"house_type", houses_wrong[i]["house_type"]>> :
                          i \in DOMAIN houses_wrong }]

\* set_weather_from_try_region(try_region): the hourly file is given the
\* index date_range(datetime(year, 1, 1, 0), periods=self.hoy, freq="h"),
\* which fails when the file has another number of rows, and is resampled
\* to daily means; a daily mean is kept as the sum of its 24 values
set_weather_from_try_region(self, try_region) ==
    IF ~try_region.given \/ try_region.v \notin 1..15
    THEN [status |-> "ValueError", self |-> self]
    ELSE IF TryRows # self.hoy
    THEN [status |-> "ValueError", self |-> self]
    ELSE LET days == self.hoy \div 24
             TAMB == [d \in 1..days |->
                        SumTry(try_region.v, "TAMB", 24 * (d - 1), 24 * d - 1)]
             CCOVER == [d \in 1..days |->
                          SumTry(try_region.v, "CCOVER", 24 * (d - 1), 24 * d - 1)]
             cloud_category == [d \in 1..days |->
                                  IF CCOVER[d] >= 5 * 24 THEN "B" ELSE "H"]
         IN [status |-> "ok",
             self |-> [self EXCEPT
                         !.temperature = Given([num |-> ToArray(TAMB, 1, days),
                                                den |-> 24]),
                         !.cloud_coverage = Given(ToArray(cloud_category, 1, days))]]

\* _check_weather_definitions
_check_weather_definitions(self) ==
    IF ~self.temperature.given /\ ~self.cloud_coverage.given
       /\ ~self.energy_factors.given
    THEN set_weather_from_try_region(self, self._try_region)
    ELSE IF ~self.temperature.given \/ ~self.cloud_coverage.given
            \/ ~self.energy_factors.given
    THEN [status |-> "ValueError", self |-> self]
    ELSE IF self._try_region.given
    THEN [status |-> "ValueError", self |-> self]
    ELSE [status |-> "ok", self |-> self]

\* Region.__init__
Region(year, try_region, temperature, cloud_coverage, energy_factors, seasons, holidays, houses, resample_rule, zero_summer_heat_demand) ==
    LET self0 == [hoy |-> Region_hoy(year),
                  _seasons |-> SeasonsUpdate(DefaultSeasons, seasons),
                  _set_season |-> IF seasons.given THEN "fix" ELSE "temperature",
                  _year |-> year,
                  temperature |-> temperature,
                  cloud_coverage |-> cloud_coverage,
                  energy_factors |-> energy_factors,
                  _try_region |-> try_region,
                  houses |-> <<>>,
                  temperature_limits |-> {},
                  zero_summer_heat_demand |-> zero_summer_heat_demand,
                  type_days |-> EmptyDict,
                  _load_profiles |-> EmptyDict,
                  _holidays |-> holidays,
                  _resample_rule |-> resample_rule]
        checked == _check_weather_definitions(self0)
        added == IF houses.given THEN add_houses(checked.self, houses.v)
                 ELSE [status |-> "ok", self |-> checked.self, warnings |-> {}]
    IN IF checked.status # "ok"
       THEN [status |-> checked.status, self |-> self0, warnings |-> {}]
       ELSE added

\* the last of the first i season entries whose slice days.loc[a:b]
\* contains the day t; 0 when there is none
RECURSIVE LastSlice(_, _, _)
LastSlice(slices, i, t) ==
    IF i = 0 THEN 0
    ELSE IF slices[i].a <= t /\ t <= slices[i].b THEN i
    ELSE LastSlice(slices, i - 1, t)

\* seasons_dict of _get_typical_days
SeasonLetter(period) ==
    CASE period = "summer" -> "S"
      [] period = "winter" -> "W"
      [] period = "transition" -> "U"
      [] OTHER -> period

\* the column season_fix: the letter of the fixed range of day t, "NaN"
\* for a day in no range
season_fix(slices, t) ==
    LET i == LastSlice(slices, Len(slices), t)
    IN IF i = 0 THEN "NaN" ELSE SeasonLetter(slices[i].period)

\* a plausible slip: a day at the summer limit counts as summer
season_t_closed(num, den, temperature_limit) ==
    IF num >= temperature_limit.summer * den THEN "S"
    ELSE IF num < temperature_limit.winter * den THEN "W"
    ELSE "U"

\* the column season_t for a daily mean tamb.num / tamb.den
season_t(num, den, temperature_limit) ==
    IF num > temperature_limit.summer * den THEN "S"
    ELSE IF num < temperature_limit.winter * den THEN "W"
    ELSE "U"

\* a plausible slip: the weekday letter and the cloud letter exchanged
day_types_swapped(season, weekday, cloud_category) ==
    IF season = "NaN" THEN <<"NaN", "NaN", "NaN">>
    ELSE Typtag(season,
                IF season = "S" THEN "X" ELSE cloud_category,
                IF weekday = 7 THEN "S" ELSE "W")

\* days["day_types"] = season + day_of_week + cloud_category for one day
day_types(season, weekday, cloud_category) ==
    IF season = "NaN" THEN <<"NaN", "NaN", "NaN">>
    ELSE Typtag(season,
                IF weekday = 7 THEN "S" ELSE "W",
                IF season = "S" THEN "X" ELSE cloud_category)

\* _get_typical_days(holidays, temperature_limit, set_season)
_get_typical_days(self, holidays, temperature_limit, set_season) ==
    LET n == self.hoy \div 24
        date_time_index == DateRange(DateTime(self._year, 1, 1, 0, 0), n, 1440)
        slices == SeasonSlices(self._year, self._seasons)
        days == add_weekdays2df(date_time_index, holidays, TRUE)
        TAMB == self.temperature.v
        cloud == self.cloud_coverage.v
        season(k) == IF set_season = "temperature"
                     THEN season_t(TAMB.num[k], TAMB.den, temperature_limit)
                     ELSE season_fix(slices, IndexAt(date_time_index, k))
    IN IF Len(TAMB.num) # n \/ Len(cloud) # n
       THEN [status |-> "ValueError"]
       ELSE IF set_season \notin {"temperature", "fix"}
       THEN [status |-> "NotImplementedError"]
       ELSE [status |-> "ok",
             index |-> date_time_index,
             extra |-> 0,
             day_types |-> ToArray([k \in 1..n |->
                                      day_types(season(k), days.weekday[k], cloud[k])],
                                   1, n)]

\* The typical-day table VDI_4655_Typtage.csv: the model's table has a
\* row every BlockMinutes minutes of the day, for each house type and
\* each of the ten day types
BlocksPerDay == 2
BlockMinutes == 1440 \div BlocksPerDay

\* the factors of the table are numerators over TypDen
TypDen == 8

\* the cell of a column for a house type, day type and minute of the day
TyptageCell(house_type, typtag, minute_of_day, col) ==
    LET block == minute_of_day \div BlockMinutes
        sunday == IF typtag[2] = "S" THEN 1 ELSE 0
    IN CASE col = "Q_Heiz_TT" ->
              IF typtag[1] = "S" THEN block % 2 ELSE 1 + ((block + sunday) % 2)
         [] col = "W_TT" -> 1 + (block % 2) * (2 - sunday)
         [] OTHER -> (IF house_type = "EFH" THEN 1 ELSE 2) + (block % 2)

\* rows of minute_table: date_range(f"1/1/{year}", periods=525600, freq="Min")
MinuteTableRows == 525600

\* _load_profile_factors(tl).  self.type_days[tl] is joined with the minute
\* table (the union of both indexes) and filled forward, merged with the
\* table of the typical days and given the index of the minute table,
\* which fails when the union has more rows than the minute table.  The
\* load profile is constant between two rows of the table: it is kept as
\* one row of numerators per block of BlockMinutes minutes, over den[ht].
_load_profile_factors(self, tl) ==
    LET days == self.type_days[tl]
        minute_table == DateRange(DateTime(self._year, 1, 1, 0, 0), MinuteTableRows, 1)
        last == IndexAt(minute_table, MinuteTableRows)
        extra == Cardinality({k \in IndexRows(days.index) : IndexAt(days.index, k) > last})
        type_days == [index |-> minute_table, extra |-> extra,
                      day_types |-> days.day_types]
        blocks == MinuteTableRows \div BlockMinutes
        row(b) == LET typtag == days.day_types[(b - 1) \div BlocksPerDay + 1]
                      minute_of_day == ((b - 1) % BlocksPerDay) * BlockMinutes
                  IN [ht \in HouseTypes |->
                        [col \in EnergyColumns |->
                            TyptageCell(ht, typtag, minute_of_day, col)]]
    IN IF MinuteTableRows + extra # MinuteTableRows
       THEN [status |-> "ValueError",
             self |-> [self EXCEPT !.type_days = Put(self.type_days, tl, type_days)]]
       ELSE [status |-> "ok",
             self |-> [self EXCEPT !.type_days = Put(self.type_days, tl, type_days)],
             ret |-> [index |-> minute_table,
                      data |-> ToArray([b \in 1..blocks |-> row(b)], 1, blocks),
                      den |-> [ht \in HouseTypes |->
                                 IF ht = "MFH" THEN TypDen * 15 ELSE TypDen]]]

\* the index of frame.resample(rule): bins of rule minutes from the start
ResampleIndex(index, rule) ==
    DateRange(index.start, (index.periods * index.freq + rule - 1) \div rule, rule)

\* a plausible slip: every call sums rule rows of the minute table, also
\* when the profile was resampled before
_resample_profiles_from_minutes(self, rule, tl) ==
    LET lp == self._load_profiles[tl]
    IN [self EXCEPT
          !._load_profiles =
             Put(self._load_profiles, tl,
                 [lp EXCEPT
                    !.index = ResampleIndex(lp.index, rule),
                    !.data = [b \in DOMAIN lp.data |->
                                [ht \in HouseTypes |->
                                   [col \in EnergyColumns |->
                                       lp.data[b][ht][col] * rule]]]]),
          !.type_days =
             Put(self.type_days, tl,
                 [self.type_days[tl] EXCEPT
                    !.index = ResampleIndex(self.type_days[tl].index, rule)])]

\* _resample_profiles(rule, tl): the load profile is summed over each bin
\* (rule \div freq rows of one block), the type days keep the first row
_resample_profiles(self, rule, tl) ==
    LET lp == self._load_profiles[tl]
        rows == rule \div lp.index.freq
    IN [self EXCEPT
          !._load_profiles =
             Put(self._load_profiles, tl,
                 [lp EXCEPT
                    !.index = ResampleIndex(lp.index, rule),
                    !.data = [b \in DOMAIN lp.data |->
                                [ht \in HouseTypes |->
                                   [col \in EnergyColumns |->
                                       lp.data[b][ht][col] * rows]]]]),
          !.type_days =
             Put(self.type_days, tl,
                 [self.type_days[tl] EXCEPT
                    !.index = ResampleIndex(self.type_days[tl].index, rule)])]

\* the keys of a house that get_daily_energy_demand_houses reads
HouseKeys == {"name", "house_type", "N_Pers", "N_WE", "Q_Heiz_a", "W_a", "Q_TWW_a"}

\* a plausible slip: a negative daily demand is stored as it is
daily_demand_unclipped(annual, n_pers_we, f_tt) ==
    annual * (EfScale + n_pers_we * f_tt)

\* w_tt and q_tww_tt for one house and day type, as a numerator over
\* EfDen: annual * (1.0 / 365.0 + n_pers_we * f_tt), and
\* annual * (1.0 / 365.0 + n_pers_we * 0) when that is negative
daily_demand(annual, n_pers_we, f_tt) ==
    IF annual * (EfScale + n_pers_we * f_tt) < 0
    THEN annual * (EfScale + n_pers_we * 0)
    ELSE annual * (EfScale + n_pers_we * f_tt)

\* get_daily_energy_demand_houses(tl)
get_daily_energy_demand_houses(self, tl) ==
    LET typical == IF tl \in DOMAIN self.type_days THEN [status |-> "ok"]
                   ELSE _get_typical_days(self, self._holidays, tl, "temperature")
        type_days == IF tl \in DOMAIN self.type_days THEN self.type_days
                     ELSE Put(self.type_days, tl, [index |-> typical.index,
                                                   extra |-> typical.extra,
                                                   day_types |-> typical.day_types])
        read == IF self.energy_factors.given THEN self.energy_factors.v
                ELSE ReadEnergyFactors(self._try_region.v)
        energy_factors ==
            IF self.zero_summer_heat_demand
            THEN [key \in DOMAIN read |->
                    IF key[2] = "F_Heiz_TT"
                       /\ key[3] \in {Typtag("S", "W", "X"), Typtag("S", "S", "X")}
                    THEN 0 ELSE read[key]]
            ELSE read
        self1 == [self EXCEPT
                    !.type_days = type_days,
                    !.energy_factors = IF self.energy_factors.given
                                       THEN Given(energy_factors)
                                       ELSE self.energy_factors]
        typtage_combinations == SeqToSet(type_days[tl].day_types)
        n_pers_we(house) == IF house["house_type"] = "EFH" THEN house["N_Pers"]
                            ELSE house["N_WE"]
        negative(house, annual, name, typtag) ==
            house[annual] * (EfScale + n_pers_we(house)
                                * energy_factors[<<house["house_type"], name, typtag>>]) < 0
        value(house, energy, typtag) ==
            CASE energy = "Q_Heiz_TT" ->
                   house["Q_Heiz_a"]
                     * energy_factors[<<house["house_type"], "F_Heiz_TT", typtag>>]
              [] energy = "W_TT" ->
                   daily_demand(house["W_a"], n_pers_we(house),
                                energy_factors[<<house["house_type"], "F_el_TT", typtag>>])
              [] OTHER ->
                   daily_demand(house["Q_TWW_a"], n_pers_we(house),
                                energy_factors[<<house["house_type"], "F_TWW_TT", typtag>>])
    IN IF typical.status # "ok"
       THEN [status |-> typical.status, self |-> self, warnings |-> {}]
       ELSE IF \E i \in DOMAIN self.houses : ~(HouseKeys \subseteq DOMAIN self.houses[i])
       THEN [status |-> "KeyError", self |-> self1, warnings |-> {}]
       ELSE IF \E i \in DOMAIN self.houses : \E typtag \in typtage_combinations :
                  <<self.houses[i]["house_type"], "F_Heiz_TT", typtag>>
                      \notin DOMAIN energy_factors
       THEN [status |-> "KeyError", self |-> self1, warnings |-> {}]
       ELSE [status |-> "ok",
             self |-> self1,
             ret |-> [name \in {self.houses[i]["name"] : i \in DOMAIN self.houses} |->
                        LET last == CHOOSE i \in DOMAIN self.houses :
                                       /\ self.houses[i]["name"] = name
                                       /\ \A j \in DOMAIN self.houses :
                                            self.houses[j]["name"] = name => j <= i
                        IN [energy \in EnergyColumns |->
                              [typtag \in typtage_combinations |->
                                 value(self.houses[last], energy, typtag)]]],
             warnings |->
                { <<"W_TT", self.houses[i]["name"], typtag>> :
                    <<i, typtag>> \in
                       { x \in (DOMAIN self.houses) \X typtage_combinations :
                           negative(self.houses[x[1]], "W_a", "F_el_TT", x[2]) } }
                \cup
                { <<"Q_TWW_TT", self.houses[i]["name"], typtag>> :
                    <<i, typtag>> \in
                       { x \in (DOMAIN self.houses) \X typtage_combinations :
                           negative(self.houses[x[1]], "Q_TWW_a", "F_TWW_TT", x[2]) } }]

\* "if temp_limit not in self._load_profiles:
\*      self._load_profiles[temp_limit] = self._load_profile_factors(temp_limit)"
\* with factors the outcome of _load_profile_factors
temp_limit_loaded(self, temp_limit, factors) ==
    IF temp_limit \in DOMAIN self._load_profiles
    THEN [status |-> "ok", self |-> self]
    ELSE IF factors.status # "ok"
    THEN [status |-> factors.status, self |-> factors.self]
    ELSE [status |-> "ok",
          self |-> [factors.self EXCEPT
                      !._load_profiles =
                          Put(factors.self._load_profiles, temp_limit, factors.ret)]]

\* "if self._resample_rule is not None:
\*      self._resample_profiles(self._resample_rule, temp_limit)"
\* after the daily demand and the load profile of the limit were made
temp_limit_resampled(temp_limit, daily, loaded) ==
    IF daily.status # "ok"
    THEN [status |-> daily.status, self |-> daily.self, warnings |-> daily.warnings]
    ELSE IF loaded.status # "ok"
    THEN [status |-> loaded.status, self |-> loaded.self, warnings |-> daily.warnings]
    ELSE [status |-> "ok",
          self |-> IF loaded.self._resample_rule.given
                   THEN _resample_profiles(loaded.self, loaded.self._resample_rule.v,
                                           temp_limit)
                   ELSE loaded.self,
          ret |-> daily.ret,
          warnings |-> daily.warnings]

\* the rest of the loop body once the daily demand of the limit is known
temp_limit_daily(temp_limit, daily) ==
    temp_limit_resampled(temp_limit, daily,
        temp_limit_loaded(daily.self, temp_limit,
                          _load_profile_factors(daily.self, temp_limit)))

\* the body of the loop "for temp_limit in self.temperature_limits"
temp_limit_body(self, temp_limit) ==
    temp_limit_daily(temp_limit, get_daily_energy_demand_houses(self, temp_limit))

\* what one pass of the loop leaves behind: the region, the dictionary
\* daily_energy_demand_houses and the warnings raised so far
temp_limit_step(acc, temp_limit, body) ==
    [status |-> body.status,
     self |-> body.self,
     daily_energy_demand_houses |->
         IF body.status = "ok"
         THEN Put(acc.daily_energy_demand_houses, temp_limit, body.ret)
         ELSE acc.daily_energy_demand_houses,
     warnings |-> acc.warnings \cup body.warnings]

\* the loop over the temperature limits still to visit; it ends with the
\* first exception
RECURSIVE temp_limit_loop(_, _)
temp_limit_loop(acc, todo) ==
    IF todo = {} \/ acc.status # "ok" THEN acc
    ELSE LET temp_limit == CHOOSE x \in todo : TRUE
         IN temp_limit_loop(
                temp_limit_step(acc, temp_limit,
                                temp_limit_body(acc.self, temp_limit)),
                todo \ {temp_limit})

\* column.replace("TT", "a")
AnnualKey(column) ==
    CASE column = "Q_Heiz_TT" -> "Q_Heiz_a"
      [] column = "W_TT" -> "W_a"
      [] OTHER -> "Q_TWW_a"

\* df_typ.mul(load_profile_df[house["house_type"]]): the daily demand of
\* the day type of each row times the load profile factor of the row
load_curve_raw(self, house, tl, daily) ==
    LET days == self.type_days[tl]
        lp == self._load_profiles[tl]
        demand == daily[house["name"]]
        blocks == Len(lp.data)
    IN ToArray([b \in 1..blocks |->
                  [col \in EnergyColumns |->
                     demand[col][days.day_types[(b - 1) \div BlocksPerDay + 1]]
                       * lp.data[b][house["house_type"]][col]]],
               1, blocks)

\* a plausible slip: the columns are returned without the renormalisation
load_curve_house_raw(self, house, daily_energy_demand_houses) ==
    LET tl == t_limit(house["summer_temperature_limit"],
                      house["winter_temperature_limit"])
        lp == self._load_profiles[tl]
    IN [key |-> house["name"], house_type |-> house["house_type"],
        index |-> lp.index,
        data |-> load_curve_raw(self, house, tl, daily_energy_demand_houses[tl]),
        den |-> [col \in EnergyColumns |-> EfDen * lp.den[house["house_type"]]]]

\* the body of the loop "for house in self.houses".  A frame is
\* [index, data, den]: every row of block b of column col holds
\* data[b][col] / den[col].
load_curve_house(self, house, daily_energy_demand_houses) ==
    LET tl == t_limit(house["summer_temperature_limit"],
                      house["winter_temperature_limit"])
        lp == self._load_profiles[tl]
        raw == load_curve_raw(self, house, tl, daily_energy_demand_houses[tl])
        rows == BlockMinutes \div lp.index.freq
        sum_ == [Q_Heiz_TT |-> SumRows(raw, "Q_Heiz_TT", 1, Len(raw)) * rows,
                 W_TT |-> SumRows(raw, "W_TT", 1, Len(raw)) * rows,
                 Q_TWW_TT |-> SumRows(raw, "Q_TWW_TT", 1, Len(raw)) * rows]
    IN [key |-> house["name"], house_type |-> house["house_type"],
        index |-> lp.index,
        data |-> [b \in DOMAIN raw |->
                    [col \in EnergyColumns |->
                       IF sum_[col] > 0 THEN raw[b][col] * house[AnnualKey(col)]
                       ELSE raw[b][col]]],
        den |-> [col \in EnergyColumns |->
                   IF sum_[col] > 0 THEN sum_[col]
                   ELSE EfDen * lp.den[house["house_type"]]]]

\* the loop "for house in self.houses" and pd.concat of its frames, after
\* the loop over the temperature limits ended as loop.  The result maps a
\* house name to its frame, in the order of the dictionary house_profiles.
house_loop(loop) ==
    IF loop.status # "ok"
    THEN [status |-> loop.status, self |-> loop.self, warnings |-> loop.warnings]
    ELSE IF \E i \in DOMAIN loop.self.houses :
               ~({"summer_temperature_limit", "winter_temperature_limit"}
                   \subseteq DOMAIN loop.self.houses[i])
    THEN [status |-> "KeyError", self |-> loop.self, warnings |-> loop.warnings]
    ELSE IF loop.self.houses = <<>>
    THEN [status |-> "ValueError", self |-> loop.self, warnings |-> loop.warnings]
    ELSE [status |-> "ok", self |-> loop.self,
          ret |-> DictUpdate(<<>>,
                     ToArray([i \in DOMAIN loop.self.houses |->
                                load_curve_house(loop.self, loop.self.houses[i],
                                                 loop.daily_energy_demand_houses)],
                             1, Len(loop.self.houses))),
          warnings |-> loop.warnings]

\* get_load_curve_houses()
get_load_curve_houses(self) ==
    house_loop(temp_limit_loop([status |-> "ok", self |-> self,
                                daily_energy_demand_houses |-> EmptyDict,
                                warnings |-> {}],
                               self.temperature_limits))

---------------------------------------------------------------------------
(* Inputs of the tools.add_weekdays2df calls                                *)

MaxWdRows == 3

\* first timestamps: Fri 2010-01-01, Sat 2010-12-25 12:00, Sun 2010-10-03,
\* Mon 2010-05-24 06:00, Tue 2012-02-28 (leap year)
WdStarts ==
    { DateTime(2010, 1, 1, 0, 0), DateTime(2010, 12, 25, 12, 0),
      DateTime(2010, 10, 3, 0, 0), DateTime(2010, 5, 24, 6, 0),
      DateTime(2012, 2, 28, 0, 0) }

WdFreqs == {720, 1440}

WdHolidays ==
    { NoHolidays,
      Holidays({Date(2010, 1, 1), Date(2010, 12, 25)}),
      Holidays({Date(2010, 10, 3), Date(2010, 5, 25), Date(2012, 2, 29)}) }

NoCall == [op |-> "none"]

IdleTools ==
    /\ wd_call = NoCall
    /\ wd_df = [weekday |-> <<>>, date |-> <<>>]

Idle25 ==
    /\ p25 = NoCall
    /\ p25_short = NoCall

IdleSlp ==
    /\ selp_series = "distinct"
    /\ slp = [i \in 1..2 |-> NoCall]
    /\ slp_ret = NoCall

IdleHeat ==
    /\ shlp_hour_factors = "unit"
    /\ heat = NoCall
    /\ heat_ret = NoCall

IdleVdi ==
    /\ region = NoCall
    /\ region_ret = NoCall

IdleIlp ==
    /\ ilp = NoCall
    /\ ilp_ret = NoCall

InitTools == IdleTools /\ Idle25 /\ IdleSlp /\ IdleHeat /\ IdleVdi /\ IdleIlp

\* dt = tools.add_weekdays2df(pd.DataFrame(index=idx), holidays, holiday_is_sunday)
CallAddWeekdays ==
    \E start \in WdStarts, n \in 1..MaxWdRows, freq \in WdFreqs,
       hol \in WdHolidays, sunday \in BOOLEAN :
        LET idx == DateRange(start, n, freq)
        IN /\ wd_call' = [op |-> "add_weekdays2df", index |-> idx,
                          holidays |-> hol, holiday_is_sunday |-> sunday]
           /\ wd_df' = add_weekdays2df(idx, hol, sunday)
           /\ UNCHANGED <<vars_25, vars_slp, vars_heat, vars_vdi, vars_ilp>>

NextTools == CallAddWeekdays

SpecTools == InitTools /\ [][NextTools]_vars

---------------------------------------------------------------------------
(* Inputs of the BDEW25 profile constructions                              *)

MaxRows25 == 5

\* first timestamps: Thu 2010-12-30 23:00 (into Fri), Fri 2010-12-31 23:30
\* (into Sat 2011-01-01), Sun 2010-05-23 23:15 (into Whit Monday),
\* Fri 2010-01-01 00:00, and 23:05 (off the quarter-hour grid)
Starts25 ==
    { DateTime(2010, 12, 30, 23, 0), DateTime(2010, 12, 31, 23, 30),
      DateTime(2010, 5, 23, 23, 15), DateTime(2010, 1, 1, 0, 0),
      DateTime(2010, 1, 1, 23, 5) }

Freqs25 == {5, 15, 30, 60}

Holidays25 ==
    { NoHolidays,
      Holidays({Date(2010, 1, 1), Date(2010, 5, 24), Date(2010, 12, 25)}) }

Init25 == IdleTools /\ Idle25 /\ IdleSlp /\ IdleHeat /\ IdleVdi /\ IdleIlp

\* slp_profile = slp_type(timeindex, holidays=holidays)
Build25 ==
    /\ p25 = NoCall
    /\ \E cls \in Classes25, start \in Starts25, n \in 0..MaxRows25,
          freq \in Freqs25, hol \in Holidays25 :
        LET idx == DateRange(start, n, freq)
            res == BDEW25Profile(cls, idx, hol)
        IN p25' = [op |-> "build", cls |-> cls, timeindex |-> idx, holidays |-> hol,
                   status |-> res.status, values |-> res.values]
    /\ UNCHANGED <<p25_short, vars_tools, vars_slp, vars_heat, vars_vdi, vars_ilp>>

\* short_slp = slp_type(timeindex[i:j], holidays=holidays)
BuildShort25 ==
    /\ p25 # NoCall
    /\ p25_short = NoCall
    /\ \E i \in 0..p25.timeindex.periods, j \in 0..p25.timeindex.periods :
        /\ i <= j
        /\ LET idx == IndexSlice(p25.timeindex, i, j)
               res == BDEW25Profile(p25.cls, idx, p25.holidays)
           IN p25_short' = [op |-> "build", cls |-> p25.cls, timeindex |-> idx,
                            holidays |-> p25.holidays, from |-> i, to |-> j,
                            status |-> res.status, values |-> res.values]
    /\ UNCHANGED <<p25, vars_tools, vars_slp, vars_heat, vars_vdi, vars_ilp>>

Next25 == Build25 \/ BuildShort25

Spec25 == Init25 /\ [][Next25]_vars

---------------------------------------------------------------------------
(* Inputs of the ElecSlp constructions and calls                            *)

SlpYears == {2010, 2012}

\* alt_seasons of test_changed_seasons; a dictionary that lets transition2
\* overlap summer1 and leaves 1 to 14 November uncovered
SlpSeasonArgs ==
    { NoSeasons,
      Seasons(<<Season("summer1", 5, 2, 9, 14), Season("transition1", 3, 21, 5, 1)>>),
      Seasons(<<Season("transition2", 9, 1, 10, 31), Season("winter2", 11, 15, 12, 31)>>) }

\* 24 May 2010 is Whit Monday, 13 May 2010 Ascension Day; 25 December 2010
\* is a Saturday, 3 October 2010 a Sunday
SlpHolidayArgs(year) ==
    { NoHolidays,
      Holidays({Date(year, 5, 24)}),
      Holidays({Date(year, 5, 13), Date(year, 10, 3), Date(year, 12, 25)}) }

\* ann_el_demand_per_sector: "i0" is no column of the frame
SlpDemands ==
    { [c \in {"h0", "g0"} |-> IF c = "h0" THEN 3 ELSE 2],
      [c \in {"h0_dyn", "g6", "i0"} |-> IF c = "g6" THEN 0 ELSE 2] }

SlpConversionFactors == {1, 4}

MaxRowsSlp == 3

\* indexes given to create_bdew_load_profiles: 15-minute steps from
\* 14 May 23:30, 14 September 23:30 and 31 October 23:45 of the object's
\* year, 12-hour steps from 1 January of the year after it
SlpIndexes(year) ==
    { DateRange(start, MaxRowsSlp, 15) :
        start \in {DateTime(year, 5, 14, 23, 30), DateTime(year, 9, 14, 23, 30),
                   DateTime(year, 10, 31, 23, 45)} }
    \cup {DateRange(DateTime(year + 1, 1, 1, 0, 0), MaxRowsSlp, 720)}

InitSlp ==
    /\ IdleTools /\ Idle25 /\ IdleHeat /\ IdleVdi /\ IdleIlp
    /\ selp_series \in SelpTables
    /\ slp = [i \in 1..2 |-> NoCall]
    /\ slp_ret = NoCall

\* e_slp = bdew.ElecSlp(year, seasons=seasons, holidays=holidays)
ConstructSlp ==
    /\ \E i \in 1..2, year \in SlpYears, seasons \in SlpSeasonArgs :
        \E holidays \in SlpHolidayArgs(year) :
            /\ slp[i] = NoCall
            \* the second object: same year, other seasons or other holidays
            /\ i = 2 => /\ slp[1] # NoCall /\ slp_ret = NoCall
                        /\ slp[1].year = year
                        /\ slp[1].seasons = seasons \/ slp[1].holidays = holidays
            /\ slp' = [slp EXCEPT ![i] = ElecSlp(selp_series, year, seasons, holidays)]
    /\ UNCHANGED <<selp_series, slp_ret, vars_tools, vars_25, vars_heat, vars_vdi, vars_ilp>>

CallableSlp == slp[1] # NoCall /\ slp[2] = NoCall /\ slp_ret = NoCall

\* e_slp.get_scaled_profiles(demand)
CallGetScaledProfiles ==
    /\ CallableSlp
    /\ \E demand \in SlpDemands :
        slp_ret' = [op |-> "get_scaled_profiles", demand |-> demand,
                    ret |-> get_scaled_profiles(slp[1].slp_frame, demand)]
    /\ UNCHANGED <<selp_series, slp, vars_tools, vars_25, vars_heat, vars_vdi, vars_ilp>>

\* e_slp.get_scaled_power_profiles(demand, conversion_factor=cf)
CallGetScaledPowerProfiles ==
    /\ CallableSlp
    /\ \E demand \in SlpDemands, cf \in SlpConversionFactors :
        slp_ret' = [op |-> "get_scaled_power_profiles", demand |-> demand,
                    conversion_factor |-> cf,
                    ret |-> get_scaled_power_profiles(slp[1].slp_frame, demand, cf)]
    /\ UNCHANGED <<selp_series, slp, vars_tools, vars_25, vars_heat, vars_vdi, vars_ilp>>

\* e_slp.get_profile(demand)
CallGetProfile ==
    /\ CallableSlp
    /\ \E demand \in SlpDemands :
        slp_ret' = [op |-> "get_profile", demand |-> demand,
                    ret |-> get_profile(slp[1].slp_frame, demand)]
    /\ UNCHANGED <<selp_series, slp, vars_tools, vars_25, vars_heat, vars_vdi, vars_ilp>>

\* e_slp.create_bdew_load_profiles(dt_index, slp_types, holidays=holidays)
CallCreateBdewLoadProfiles ==
    /\ CallableSlp
    /\ \E dt_index \in SlpIndexes(slp[1].year),
          holidays \in SlpHolidayArgs(slp[1].year) :
        slp_ret' = [op |-> "create_bdew_load_profiles", dt_index |-> dt_index,
                    holidays |-> holidays,
                    ret |-> create_bdew_load_profiles(selp_series, slp[1]._year,
                                slp[1]._seasons, dt_index, SlpTypes, holidays)]
    /\ UNCHANGED <<selp_series, slp, vars_tools, vars_25, vars_heat, vars_vdi, vars_ilp>>

NextSlp ==
    \/ ConstructSlp
    \/ CallGetScaledProfiles
    \/ CallGetScaledPowerProfiles
    \/ CallGetProfile
    \/ CallCreateBdewLoadProfiles

SpecSlp == InitSlp /\ [][NextSlp]_vars

---------------------------------------------------------------------------
(* Inputs of the HeatBuilding constructions and calls                       *)

MaxDaysHeat == 3

\* daily temperature levels; 43 is above the supported range
HeatLevels == {0 - 12, 4, 23}

\* levels of a single day at the ends of the supported range: the daily
\* means -21.5, -20.5, 39.5 round up to -21, -20 and 40
HeatExtremes == {0 - 22, 0 - 21, 39}

RECURSIVE LevelSeqs(_)
LevelSeqs(days) ==
    IF days = 0 THEN {<<>>}
    ELSE {Append(s, l) : s \in LevelSeqs(days - 1), l \in HeatLevels}

\* an hourly temperature series: the level of the day, 2 K more from 12:00
\* to 17:59
HourlyTemperature(levels, n) ==
    [k \in 1..n |->
        levels[((k - 1) \div 24) + 1] + (IF ((k - 1) % 24) \in 12..17 THEN 2 ELSE 0)]

\* whole days from Friday 2010-12-24 00:00, and a day and a half
HeatInputs ==
    { [n |-> 24 * Len(levels), levels |-> levels] :
        levels \in UNION {LevelSeqs(days) : days \in 1..MaxDaysHeat} }
    \cup { [n |-> 24 * days, levels |-> [d \in 1..days |-> 43]] : days \in 1..MaxDaysHeat }
    \cup { [n |-> 36, levels |-> levels] : levels \in LevelSeqs(2) }
    \cup { [n |-> 24, levels |-> <<l>>] : l \in HeatExtremes }

\* shlp_type and building_class; ("GHD", 1) is refused by __init__,
\* ("EFH", 0) has no rows in the csv files
HeatTypes ==
    { <<"EFH", 1>>, <<"MFH", 10>>, <<"GHD", 0>>, <<"GKO", 0>>, <<"GHD", 1>>, <<"EFH", 0>> }

\* other spellings of the types, tried with the shortest inputs: ("ghd", 1)
\* and ("GKO", 3) are refused
HeatTypesSpelled ==
    { <<"efh", 1>>, <<"Mfh", 10>>, <<"ghd", 0>>, <<"ghd", 1>>, <<"GKO", 3>> }

\* wind_class, ww_incl and annual_heat_demand
HeatSites == { <<0, TRUE, 1>>, <<1, FALSE, 5>> }

HeatHolidays == { NoHolidays, Holidays({Date(2010, 12, 24), Date(2010, 12, 25)}) }

InitHeat ==
    /\ IdleTools /\ Idle25 /\ IdleSlp /\ IdleVdi /\ IdleIlp
    /\ shlp_hour_factors \in HourFactorTables
    /\ heat = NoCall
    /\ heat_ret = NoCall

\* bdew.HeatBuilding(df_index, temperature=..., shlp_type=..., ...)
ConstructHeat ==
    /\ heat = NoCall
    /\ \E in \in HeatInputs, site \in HeatSites, holidays \in HeatHolidays :
        \E type \in HeatTypes \cup (IF in.n = 24 THEN HeatTypesSpelled ELSE {}) :
        heat' = HeatBuilding(DateRange(DateTime(2010, 12, 24, 0, 0), in.n, 60),
                             HourlyTemperature(in.levels, in.n), site[3],
                             type[1], site[1], type[2], site[2], holidays)
    /\ UNCHANGED <<shlp_hour_factors, heat_ret, vars_tools, vars_25, vars_slp, vars_vdi, vars_ilp>>

CallableHeat == heat # NoCall /\ heat.status = "ok" /\ heat_ret = NoCall

\* heat.get_normalized_bdew_profile()
CallGetNormalizedBdewProfile ==
    /\ CallableHeat
    /\ \E made \in {get_normalized_bdew_profile(shlp_hour_factors, heat)} :
          /\ heat' = made.self
          /\ heat_ret' = [op |-> "get_normalized_bdew_profile", ret |-> made]
    /\ UNCHANGED <<shlp_hour_factors, vars_tools, vars_25, vars_slp, vars_vdi, vars_ilp>>

\* heat.get_bdew_profile()
CallGetBdewProfile ==
    /\ CallableHeat
    /\ \E made \in {get_bdew_profile(shlp_hour_factors, heat)} :
          /\ heat' = made.self
          /\ heat_ret' = [op |-> "get_bdew_profile", ret |-> made]
    /\ UNCHANGED <<shlp_hour_factors, vars_tools, vars_25, vars_slp, vars_vdi, vars_ilp>>

NextHeat ==
    \/ ConstructHeat
    \/ CallGetNormalizedBdewProfile
    \/ CallGetBdewProfile

SpecHeat == InitHeat /\ [][NextHeat]_vars

---------------------------------------------------------------------------
(* Inputs of the vdi.Region constructions and calls                         *)

\* a house dictionary without the two optional temperature limits
House(name, house_type, n_pers, n_we, q_heiz_a, q_tww_a, w_a) ==
    [name |-> name, house_type |-> house_type, N_Pers |-> n_pers, N_WE |-> n_we,
     Q_Heiz_a |-> q_heiz_a, Q_TWW_a |-> q_tww_a, W_a |-> w_a]

WithLimits(house, summer, winter) ==
    Put(Put(house, "summer_temperature_limit", summer),
        "winter_temperature_limit", winter)

\* example_houses of the tests with smaller numbers (the second house has
\* so many apartments that some daily demands come out negative), a house
\* without heating demand, a house without the optional limits, and a
\* list with a house of an unsupported type
RegionHouseLists ==
    { << WithLimits(House("EFH_1", "EFH", 3, 1, 4, 2, 5), 15, 5),
         WithLimits(House("MFH_1", "MFH", 45, 6, 5, 3, 4), 14, 4) >>,
      << WithLimits(House("EFH_0", "EFH", 3, 1, 0, 2, 5), 15, 5) >>,
      << House("EFH_2", "EFH", 3, 1, 4, 2, 5) >>,
      << WithLimits(House("MFH_2", "MFH", 45, 2, 5, 3, 4), 15, 5),
         WithLimits(House("Wrong_house_type", "wrong", 3, 1, 4, 2, 5), 15, 5) >> }

\* daily mean temperatures and cloud categories given by the caller for a
\* year of n days: the temperatures run through -2..20 and meet the limits
\* 4, 5, 14 and 15
ClimateTemperature(n) ==
    [num |-> ToArray([d \in 1..n |-> ((d * 5) % 23) - 2], 1, n), den |-> 1]

ClimateCloudCoverage(n) ==
    ToArray([d \in 1..n |-> IF d % 3 = 0 THEN "B" ELSE "H"], 1, n)

\* year, try_region, temperature, cloud_coverage, energy_factors
RegionClimates ==
    { <<2017, Given(4), NoneArg, NoneArg, NoneArg>>,
      <<2017, NoneArg, Given(ClimateTemperature(365)),
        Given(ClimateCloudCoverage(365)), Given(EnergyFactorTable(2))>>,
      <<2020, NoneArg, Given(ClimateTemperature(366)),
        Given(ClimateCloudCoverage(366)), Given(EnergyFactorTable(2))>>,
      <<2020, Given(4), NoneArg, NoneArg, NoneArg>>,
      <<2017, Given(16), NoneArg, NoneArg, NoneArg>>,
      <<2017, NoneArg, Given(ClimateTemperature(365)), NoneArg,
        Given(EnergyFactorTable(2))>> }

\* seasons, holidays, resample_rule (minutes), zero_summer_heat_demand;
\* example_seasons and example_holidays of the tests
RegionOptions(year) ==
    { <<NoSeasons, NoHolidays, NoneArg, FALSE>>,
      <<NoSeasons, Holidays({Date(year, 1, 1), Date(year, 12, 25)}), Given(60), FALSE>>,
      <<Seasons(DefaultSeasons), NoHolidays, Given(15), FALSE>>,
      <<NoSeasons, NoHolidays, Given(60), TRUE>>,
      <<Seasons(DefaultSeasons), Holidays({Date(year, 1, 1), Date(year, 12, 25)}),
        NoneArg, TRUE>> }

InitVdi ==
    /\ IdleTools /\ Idle25 /\ IdleSlp /\ IdleHeat /\ IdleIlp
    /\ region = NoCall
    /\ region_ret = NoCall

\* region = Region(year, try_region=..., ..., houses=houses, ...)
ConstructRegion ==
    /\ region = NoCall
    /\ \E climate \in RegionClimates,
          houses \in {NoneArg} \cup {Given(h) : h \in RegionHouseLists} :
        \E options \in RegionOptions(climate[1]) :
            \E made \in {Region(climate[1], climate[2], climate[3], climate[4],
                                 climate[5], options[1], options[2], houses,
                                 options[3], options[4])} :
               region' = [op |-> "init", year |-> climate[1],
                          try_region |-> climate[2],
                          energy_factors |-> climate[5],
                          seasons |-> options[1], holidays |-> options[2],
                          houses |-> houses,
                          status |-> made.status, self |-> made.self,
                          warnings |-> made.warnings]
    /\ UNCHANGED <<region_ret, vars_tools, vars_25, vars_slp, vars_heat, vars_ilp>>

\* a region that was built, and no call on it has failed
CallableRegion ==
    /\ region # NoCall
    /\ region.status = "ok"
    /\ region_ret # NoCall => region_ret.status = "ok"

\* region.add_houses(houses), on a region that has no houses yet
CallAddHouses ==
    /\ CallableRegion
    /\ region.self.houses = <<>>
    /\ \E houses \in RegionHouseLists :
        \E added \in {add_houses(region.self, houses)} :
           /\ region' = [region EXCEPT !.self = added.self]
           /\ region_ret' = [op |-> "add_houses", houses |-> houses,
                             status |-> added.status, ret |-> <<>>,
                             warnings |-> added.warnings]
    /\ UNCHANGED <<vars_tools, vars_25, vars_slp, vars_heat, vars_ilp>>

\* region.get_daily_energy_demand_houses(tl)
CallGetDailyEnergyDemandHouses ==
    /\ CallableRegion
    /\ \E tl \in region.self.temperature_limits :
        \E daily \in {get_daily_energy_demand_houses(region.self, tl)} :
           /\ region' = [region EXCEPT !.self = daily.self]
           /\ region_ret' = [op |-> "get_daily_energy_demand_houses", tl |-> tl,
                             status |-> daily.status,
                             ret |-> IF daily.status = "ok" THEN daily.ret ELSE <<>>,
                             warnings |-> daily.warnings]
    /\ UNCHANGED <<vars_tools, vars_25, vars_slp, vars_heat, vars_ilp>>

\* region.get_load_curve_houses()
CallGetLoadCurveHouses ==
    /\ CallableRegion
    /\ \E curve \in {get_load_curve_houses(region.self)} :
          /\ region' = [region EXCEPT !.self = curve.self]
          /\ region_ret' = [op |-> "get_load_curve_houses",
                            status |-> curve.status,
                            ret |-> IF curve.status = "ok" THEN curve.ret ELSE <<>>,
                            warnings |-> curve.warnings]
    /\ UNCHANGED <<vars_tools, vars_25, vars_slp, vars_heat, vars_ilp>>

NextVdi ==
    \/ ConstructRegion
    \/ CallAddHouses
    \/ CallGetDailyEnergyDemandHouses
    \/ CallGetLoadCurveHouses

SpecVdi == InitVdi /\ [][NextVdi]_vars

---------------------------------------------------------------------------
(* C5: add_weekdays2df gives every timestamp exactly one class in 0..7: a   *)
(* timestamp on a holiday date gets 0 (holiday_is_sunday=False) or 7        *)
(* (holiday_is_sunday=True) whatever its weekday, every other timestamp its *)
(* weekday number 1=Monday..7=Sunday; with holiday_is_sunday=True the class *)
(* 0 never appears.                                                         *)

IsHolidayRow(call, k) ==
    call.holidays.given /\ DateOf(IndexAt(call.index, k)) \in call.holidays.dates

C5_WeekdayClasses ==
    wd_call.op = "add_weekdays2df" =>
        /\ DOMAIN wd_df.weekday = IndexRows(wd_call.index)
        /\ \A k \in IndexRows(wd_call.index) :
            /\ wd_df.weekday[k] \in 0..7
            /\ IsHolidayRow(wd_call, k) =>
                   wd_df.weekday[k] = (IF wd_call.holiday_is_sunday THEN 7 ELSE 0)
            /\ ~IsHolidayRow(wd_call, k) =>
                   wd_df.weekday[k] = ((IndexAt(wd_call.index, k) \div 1440) % 7) + 1
            /\ wd_call.holiday_is_sunday => wd_df.weekday[k] # 0

\* a holiday on a Saturday and one on a Sunday, kept apart from Sunday (class 0)
C5_Witness ==
    /\ wd_call.op = "add_weekdays2df"
    /\ ~wd_call.holiday_is_sunday
    /\ \E k \in IndexRows(wd_call.index) :
          /\ IsHolidayRow(wd_call, k)
          /\ WeekdayOf(IndexAt(wd_call.index, k)) >= 5
          /\ wd_df.weekday[k] = 0
    /\ \E k \in IndexRows(wd_call.index) :
          ~IsHolidayRow(wd_call, k) /\ wd_df.weekday[k] \in 1..7

---------------------------------------------------------------------------
(* The value a BDEW25 class gives the quarter hour starting at s: the cell  *)
(* of its table for the month, day type and time of s, times the            *)
(* dynamisation factor of the day for the dynamic classes.                  *)

DayTypeAt(holidays, s) ==
    IF (holidays.given /\ DateOf(s) \in holidays.dates) \/ WeekdayOf(s) = 6 THEN "FT"
    ELSE IF WeekdayOf(s) = 5 THEN "SA" ELSE "WT"

TableValue25(cls, holidays, s) ==
    4 * Csv25(cls, MonthOf(s), DayTypeAt(holidays, s), HourOf(s), MinuteOf(s))

Native25(cls, holidays, s) ==
    IF cls \in Dynamic25
    THEN Frac(TableValue25(cls, holidays, s) * dynamisation_function(s), DynScale)
    ELSE Frac(TableValue25(cls, holidays, s), 1)

Built25(p) == p # NoCall /\ p.status = "ok"

(* C2: for each of G25, H25, L25, P25, S25 and a 15-minute index, the       *)
(* profile built for a contiguous sub-range of the index (same holidays)    *)
(* equals, value for value, the slice of the profile built for the full     *)
(* index.                                                                   *)
C2_SliceOfFullProfile ==
    (Built25(p25) /\ p25.timeindex.freq = 15 /\ p25_short # NoCall) =>
        /\ p25_short.status = "ok"
        /\ p25_short.values = SubSeq(p25.values, p25_short.from + 1, p25_short.to)

\* a dynamic profile with holidays, sliced inside, whose slice starts on
\* another day than the full index
C2_Witness ==
    /\ Built25(p25) /\ p25.timeindex.freq = 15 /\ Built25(p25_short)
    /\ p25.cls \in Dynamic25 /\ p25.holidays.given
    /\ p25_short.from > 0 /\ p25_short.to < p25.timeindex.periods
    /\ p25_short.timeindex.periods >= 2
    /\ DateOf(p25_short.timeindex.start) # DateOf(p25.timeindex.start)
    /\ p25_short.values = SubSeq(p25.values, p25_short.from + 1, p25_short.to)

(* C3: for an index with a constant step coarser than 15 minutes, every     *)
(* value of a static profile (G25, L25), the last one included, is the mean *)
(* of the native 15-minute values in [t, t + step).  Stated for indexes     *)
(* that start on a multiple of the step after midnight, as in the tests.    *)
MeanOfInterval25(cls, holidays, t, step) ==
    LET RECURSIVE Total(_)
        Total(i) == IF i = 0 THEN 0
                    ELSE TableValue25(cls, holidays, t + 15 * (i - 1)) + Total(i - 1)
    IN Frac(Total(step \div 15), step \div 15)

C3_MeanOfNativeValues ==
    ( /\ p25 # NoCall
      /\ p25.cls \in {"G25", "L25"}
      /\ p25.timeindex.freq > 15
      /\ p25.timeindex.periods > 0
      /\ (p25.timeindex.start % 1440) % p25.timeindex.freq = 0 ) =>
        /\ p25.status = "ok"
        /\ \A k \in IndexRows(p25.timeindex) :
              FracEq(p25.values[k],
                     MeanOfInterval25(p25.cls, p25.holidays,
                                      IndexAt(p25.timeindex, k), p25.timeindex.freq))

(* C4: for an index with a constant step finer than 15 minutes that starts  *)
(* on a quarter-hour boundary, the value at every timestamp is the native   *)
(* value of the quarter hour containing the timestamp (hold, never          *)
(* interpolation).                                                          *)
C4_HoldWithinQuarterHour ==
    ( /\ p25 # NoCall
      /\ p25.timeindex.freq < 15
      /\ p25.timeindex.periods > 0
      /\ p25.timeindex.start % 15 = 0 ) =>
        /\ p25.status = "ok"
        /\ \A k \in IndexRows(p25.timeindex) :
              LET t == IndexAt(p25.timeindex, k)
              IN FracEq(p25.values[k], Native25(p25.cls, p25.holidays, t - (t % 15)))

\* a 5-minute index over two quarter hours with different native values
C4_Witness ==
    /\ Built25(p25) /\ p25.timeindex.freq < 15 /\ p25.timeindex.start % 15 = 0
    /\ p25.timeindex.periods >= 5
    /\ FracEq(p25.values[2], p25.values[1]) /\ FracEq(p25.values[3], p25.values[1])
    /\ ~FracEq(p25.values[4], p25.values[1])
    /\ FracEq(p25.values[5], p25.values[4])

---------------------------------------------------------------------------
(* Frames of ElecSlp: the value in row k of column c is data[k][c]/den[c]  *)

Built(o) == o # NoCall

StaticColumns == SeqToSet(SlpTypes)

ColumnSum(frame, c) == SumRows(frame.data, c, 1, frame.index.periods)

FrameValue(frame, k, c) == Frac(frame.data[k][c], frame.den[c])

(* C9: ElecSlp(year) builds a frame with exactly the twelve columns        *)
(* g0..g6, h0, h0_dyn, l0, l1, l2 over a 15-minute index that starts at    *)
(* 1 January 00:00 of the year, ends at 31 December 23:45 and has 8760*4   *)
(* rows in a non-leap year and 8784*4 rows in a leap year.  (The frame     *)
(* kept in the model holds every RowStride-th row of that index.)          *)
C9_FrameShape ==
    \A i \in 1..2 :
        Built(slp[i]) =>
            LET o == slp[i]
                idx == o.date_time_index
            IN /\ Len(o.slp_frame.columns) = 12
               /\ SeqToSet(o.slp_frame.columns)
                    = {"g0", "g1", "g2", "g3", "g4", "g5", "g6",
                       "h0", "h0_dyn", "l0", "l1", "l2"}
               /\ idx.freq = 15
               /\ idx.start = DateTime(o.year, 1, 1, 0, 0)
               /\ idx.periods = (IF o.year % 4 = 0 THEN 8784 ELSE 8760) * 4
               /\ IndexAt(idx, idx.periods) = DateTime(o.year, 12, 31, 23, 45)
               /\ o.slp_frame.index = SampledIndex(idx)
               /\ DOMAIN o.slp_frame.data = 1..(idx.periods \div RowStride)

C9_Witness ==
    /\ Built(slp[1]) /\ slp[1].year = 2012
    /\ slp[1].date_time_index.periods = 35136
    /\ Built(slp[2]) /\ Len(slp[2].slp_frame.columns) = 12

(* C10: each of the eleven static columns h0, g0..g6, l0..l2 returned by   *)
(* create_bdew_load_profiles sums to 1 over the given index, whatever the  *)
(* holidays and seasons, when its raw factors are not all zero; when they  *)
(* are all zero the column is NaN.                                         *)
C10_Frame(frame) ==
    \A c \in StaticColumns :
        /\ c \in SeqToSet(frame.columns)
        /\ IF \E k \in IndexRows(frame.index) : frame.data[k][c] # 0
           THEN frame.den[c] # 0 /\ ColumnSum(frame, c) = frame.den[c]
           ELSE IsNaN(FrameValue(frame, 1, c))

C10_StaticColumnsSumToOne ==
    /\ \A i \in 1..2 : Built(slp[i]) => C10_Frame(slp[i].slp_frame)
    /\ slp_ret.op = "create_bdew_load_profiles" => C10_Frame(slp_ret.ret)

C10_Witness ==
    /\ slp_ret.op = "create_bdew_load_profiles"
    /\ slp_ret.holidays.given /\ slp[1].seasons.given
    /\ slp_ret.dt_index.periods = MaxRowsSlp
    /\ \E k \in 2..MaxRowsSlp :
         slp_ret.ret.data[k]["g0"] # slp_ret.ret.data[1]["g0"]
    /\ ColumnSum(slp_ret.ret, "g0") = slp_ret.ret.den["g0"]
    /\ slp_ret.ret.den["g0"] > 0

(* C1: for every column of the frame (g0..g6, h0, h0_dyn, l0, l1, l2) and  *)
(* every annual target T given for it, the column returned by              *)
(* get_scaled_profiles sums to T, and the column returned by               *)
(* get_scaled_power_profiles(targets, conversion_factor=cf), divided by    *)
(* cf, sums to T.                                                          *)
C1_ScaledSumIsTarget ==
    /\ slp_ret.op = "get_scaled_profiles" =>
         \A c \in DOMAIN slp_ret.demand \cap SeqToSet(slp[1].slp_frame.columns) :
            /\ c \in SeqToSet(slp_ret.ret.columns)
            /\ ColumnSum(slp_ret.ret, c) = slp_ret.demand[c] * slp_ret.ret.den[c]
    /\ slp_ret.op = "get_scaled_power_profiles" =>
         \A c \in DOMAIN slp_ret.demand \cap SeqToSet(slp[1].slp_frame.columns) :
            /\ c \in SeqToSet(slp_ret.ret.columns)
            /\ ColumnSum(slp_ret.ret, c)
                 = slp_ret.conversion_factor * slp_ret.demand[c] * slp_ret.ret.den[c]

(* The season of a timestamp, told from the arguments of the constructor:  *)
(* every default season with the range given for its key, if one is given; *)
(* the last season in the order of the defaults that contains the          *)
(* timestamp decides, "none" when no season contains it.                   *)
RangeOfKey(seasons, e) ==
    IF seasons.given /\ \E j \in DOMAIN seasons.items : seasons.items[j].key = e.key
    THEN seasons.items[CHOOSE j \in DOMAIN seasons.items : seasons.items[j].key = e.key]
    ELSE e

PeriodAt(year, seasons, t) ==
    LET S == {i \in DOMAIN DefaultSeasons :
                /\ SeasonStart(year, RangeOfKey(seasons, DefaultSeasons[i])) <= t
                /\ t <= SeasonEnd(year, RangeOfKey(seasons, DefaultSeasons[i]))}
    IN IF S = {} THEN "none"
       ELSE PeriodOf(DefaultSeasons[CHOOSE i \in S : \A j \in S : j <= i].key)

SlpPair == Built(slp[1]) /\ Built(slp[2])

RowTime(o, k) == IndexAt(o.slp_frame.index, k)

SamePeriod(k) ==
    PeriodAt(slp[1].year, slp[1].seasons, RowTime(slp[1], k))
        = PeriodAt(slp[2].year, slp[2].seasons, RowTime(slp[2], k))

(* C6 as stated: two ElecSlp objects of the same year and holidays that    *)
(* differ only in the seasons argument have equal get_profiles values (in  *)
(* the static columns) at every timestep whose season is the same under    *)
(* both season definitions.                                                *)
C6_EqualOutsideChangedRange ==
    (SlpPair /\ slp[1].holidays = slp[2].holidays) =>
        \A k \in IndexRows(slp[1].slp_frame.index) :
            SamePeriod(k) =>
                \A c \in StaticColumns :
                    \/ slp[1].slp_frame.den[c] = 0 \/ slp[2].slp_frame.den[c] = 0
                    \/ FracEq(FrameValue(slp[1].slp_frame, k, c),
                              FrameValue(slp[2].slp_frame, k, c))

(* C6, amended: at every timestep whose season is the same under both      *)
(* season definitions the raw factor is the same in every column, so the   *)
(* two get_profiles values agree up to the ratio of the two column sums:   *)
(* value1 * sum1 = value2 * sum2.  They are equal only when the changed    *)
(* range leaves the column sum as it was.                                  *)
C6_EqualUpToColumnSum ==
    (SlpPair /\ slp[1].holidays = slp[2].holidays) =>
        \A k \in IndexRows(slp[1].slp_frame.index) :
            SamePeriod(k) =>
                \A c \in SeqToSet(slp[1].slp_frame.columns) :
                    slp[1].slp_frame.data[k][c] = slp[2].slp_frame.data[k][c]

C6_Witness ==
    /\ SlpPair /\ slp[1].holidays = slp[2].holidays
    /\ slp[1].seasons # slp[2].seasons
    /\ \E k \in IndexRows(slp[1].slp_frame.index) :
        /\ SamePeriod(k)
        /\ slp[1].slp_frame.data[k]["g0"] = slp[2].slp_frame.data[k]["g0"]
        /\ slp[1].slp_frame.data[k]["g0"] > 0
        /\ ~FracEq(FrameValue(slp[1].slp_frame, k, "g0"),
                   FrameValue(slp[2].slp_frame, k, "g0"))
    /\ \E k \in IndexRows(slp[1].slp_frame.index) :
        /\ ~SamePeriod(k)
        /\ slp[1].slp_frame.data[k]["g0"] # slp[2].slp_frame.data[k]["g0"]

(* Rows of an object's frame on a holiday of the object                     *)
IsSlpHoliday(o, k) ==
    o.holidays.given /\ DateOf(RowTime(o, k)) \in o.holidays.dates

SameTimeAndSeason(o, k, j) ==
    /\ RowTime(o, k) % 1440 = RowTime(o, j) % 1440
    /\ PeriodAt(o.year, o.seasons, RowTime(o, k))
         = PeriodAt(o.year, o.seasons, RowTime(o, j))

\* within one frame: a holiday row equals every Sunday row of its season at
\* the same time of day
HolidayIsSunday(o) ==
    \A k \in IndexRows(o.slp_frame.index) :
        IsSlpHoliday(o, k) =>
            \A j \in IndexRows(o.slp_frame.index) :
                (WeekdayOf(RowTime(o, j)) = 6 /\ SameTimeAndSeason(o, k, j)) =>
                    \A c \in StaticColumns :
                        o.slp_frame.data[k][c] = o.slp_frame.data[j][c]

\* rows of a holiday of object a that is no holiday of object b and no Sunday
HolidayOnlyIn(a, b, k) ==
    /\ IsSlpHoliday(slp[a], k) /\ ~IsSlpHoliday(slp[b], k)
    /\ WeekdayOf(RowTime(slp[a], k)) # 6

C7_OwnWeekday(a, b, k) ==
    LET t == RowTime(slp[b], k)
        period == PeriodAt(slp[b].year, slp[b].seasons, t)
    IN /\ \A j \in IndexRows(slp[b].slp_frame.index) :
            (/\ WeekdayOf(RowTime(slp[b], j)) = WeekdayOf(t)
             /\ ~IsSlpHoliday(slp[b], j)
             /\ SameTimeAndSeason(slp[b], k, j)) =>
                \A c \in StaticColumns :
                    slp[b].slp_frame.data[k][c] = slp[b].slp_frame.data[j][c]
       /\ period \in Periods =>
            \A c \in StaticColumns :
                (slp[a].slp_frame.data[k][c] # slp[b].slp_frame.data[k][c])
                    <=> (SelpCell(selp_series, c, period, 7, HourOf(t), MinuteOf(t))
                           # SelpCell(selp_series, c, period, WeekdayOf(t) + 1,
                                      HourOf(t), MinuteOf(t)))

HourFactorColumnsSumToOne(tbl, self) ==
    \A weekday \in (IF self.building_class > 0 THEN {0} ELSE 1..7), interval \in 1..10 :
        SumRange([hour_of_day \in 1..24 |->
                    HourFactorCell(tbl, self.building_class, self.shlp_type,
                                   weekday, hour_of_day, interval)], 1, 24) = SfScale

HeatProfileSum == SumRange(heat_ret.ret.num, 1, heat.df_index.periods)

C8_HeatProfileSum ==
    (/\ heat_ret # NoCall /\ heat_ret.ret.status = "ok"
     /\ heat.df_index.periods % 24 = 0
     /\ HourFactorColumnsSumToOne(shlp_hour_factors, heat)) =>
        /\ heat_ret.ret.den > 0
        /\ heat_ret.op = "get_normalized_bdew_profile" =>
             HeatProfileSum = heat_ret.ret.den
        /\ heat_ret.op = "get_bdew_profile" =>
             HeatProfileSum = heat.annual_heat_demand * heat_ret.ret.den

\* three days of different temperature intervals, two of them holidays, a
\* non-residential type, an annual demand of 5
C8_Witness ==
    /\ heat_ret # NoCall /\ heat_ret.op = "get_bdew_profile"
    /\ heat_ret.ret.status = "ok"
    /\ heat.building_class = 0 /\ heat.holidays.given
    /\ heat.df_index.periods = 72 /\ heat.annual_heat_demand = 5
    /\ heat.temperature[1] < heat.temperature[25]
    /\ heat.temperature[72] < heat.temperature[25]
    /\ heat_ret.ret.num[8] # heat_ret.ret.num[14]
    /\ heat_ret.ret.num[8] # heat_ret.ret.num[32]
    /\ HeatProfileSum = 5 * heat_ret.ret.den

---------------------------------------------------------------------------
ScaledOps == {"get_scaled_profiles", "get_scaled_power_profiles", "get_profile"}

(* C11: get_scaled_profiles, get_scaled_power_profiles and get_profile     *)
(* return exactly the columns that are a column of the frame and a key of  *)
(* the annual-demand mapping, each once: a column without an annual value  *)
(* is left out (not returned as zeros or NaN) and a key that is no column  *)
(* of the frame, such as "i0", is ignored.                                 *)
C11_ColumnsOfBoth ==
    slp_ret.op \in ScaledOps =>
        LET ret == slp_ret.ret
            both == SeqToSet(slp[1].slp_frame.columns) \cap DOMAIN slp_ret.demand
        IN /\ SeqToSet(ret.columns) = both
           /\ Len(ret.columns) = Cardinality(both)
           /\ ret.index = slp[1].slp_frame.index
           /\ \A c \in both : \A k \in IndexRows(ret.index) :
                 /\ ~IsNaN(FrameValue(ret, k, c))
                 /\ FracEq(FrameValue(ret, k, c),
                           Frac(slp[1].slp_frame.data[k][c] * slp_ret.demand[c]
                                  * (CASE slp_ret.op = "get_profile" -> 4
                                       [] slp_ret.op = "get_scaled_power_profiles"
                                            -> slp_ret.conversion_factor
                                       [] OTHER -> 1),
                                slp[1].slp_frame.den[c]))

C11_Witness ==
    /\ slp_ret.op = "get_profile"
    /\ "i0" \in DOMAIN slp_ret.demand
    /\ slp_ret.ret.columns = <<"g6", "h0_dyn">>
    /\ \E k \in IndexRows(slp_ret.ret.index) : slp_ret.ret.data[k]["h0_dyn"] > 0

---------------------------------------------------------------------------
(* Region (VDI 4655)                                                        *)

\* the frame of a house in the result of get_load_curve_houses
RetFrame(name) ==
    region_ret.ret[CHOOSE j \in DOMAIN region_ret.ret : region_ret.ret[j].key = name]

\* the sum of a column of a frame, as a numerator over frame.den[col]:
\* every block holds BlockMinutes \div freq equal rows
ColumnSumNum(frame, col) ==
    SumRows(frame.data, col, 1, Len(frame.data)) * (BlockMinutes \div frame.index.freq)

\* the sum of the column before the renormalisation, for a house of the
\* region after the call
RawSum(house, col) ==
    LET tl == t_limit(house["summer_temperature_limit"],
                      house["winter_temperature_limit"])
        daily == get_daily_energy_demand_houses(region.self, tl).ret
        raw == load_curve_raw(region.self, house, tl, daily)
    IN SumRows(raw, col, 1, Len(raw))

LoadCurvesReturned ==
    /\ region_ret # NoCall
    /\ region_ret.op = "get_load_curve_houses"
    /\ region_ret.status = "ok"

(* C12: for every house and every energy type whose un-normalised curve   *)
(* has a positive sum, the column returned by get_load_curve_houses sums  *)
(* to the annual value of the house, with or without a resample rule; an  *)
(* annual value of 0 gives a column of zeros.                             *)
C12_ColumnSumIsAnnual ==
    LoadCurvesReturned =>
        \A i \in DOMAIN region.self.houses :
            LET house == region.self.houses[i]
                frame == RetFrame(house["name"])
            IN \A col \in EnergyColumns :
                  /\ RawSum(house, col) > 0 =>
                        ColumnSumNum(frame, col)
                            = house[AnnualKey(col)] * frame.den[col]
                  /\ house[AnnualKey(col)] = 0 =>
                        \A b \in DOMAIN frame.data : frame.data[b][col] = 0

C12_Witness ==
    /\ LoadCurvesReturned
    /\ region.self._resample_rule.given
    /\ \E i \in DOMAIN region.self.houses :
          LET house == region.self.houses[i]
              frame == RetFrame(house["name"])
          IN /\ house["Q_Heiz_a"] = 0
             /\ house["W_a"] > 0
             /\ RawSum(house, "W_TT") > 0
             /\ \E b \in DOMAIN frame.data : frame.data[b]["W_TT"] > 0
             /\ ColumnSumNum(frame, "W_TT") = house["W_a"] * frame.den["W_TT"]

\* the first minute of day k of the region's year
RegionDay(k) == DateTime(region.self._year, 1, 1, 0, 0) + (k - 1) * 1440

(* C13: when the region was built with a seasons dictionary, the season   *)
(* letter of every day-type code that get_load_curve_houses used is the   *)
(* one of the fixed date ranges, not the one of the temperature limits.   *)
C13_FixedSeasonsUsed ==
    (LoadCurvesReturned /\ region.seasons.given) =>
        \A tl \in DOMAIN region.self.type_days :
            \A k \in DOMAIN region.self.type_days[tl].day_types :
                region.self.type_days[tl].day_types[k][1]
                    = season_fix(SeasonSlices(region.self._year, region.self._seasons),
                                 RegionDay(k))

\* a call has left the day types of a temperature limit in the region
TypicalDaysMade ==
    /\ region # NoCall
    /\ region.status = "ok"
    /\ DOMAIN region.self.type_days # {}

\* the weekday class of day k of the region's year (1..7, a holiday is 7)
RegionWeekdayClass(k) ==
    add_weekdays2df(DateRange(RegionDay(1), region.self.hoy \div 24, 1440),
                    region.self._holidays, TRUE).weekday[k]

LoadCurvesCalled ==
    /\ region_ret # NoCall
    /\ region_ret.op = "get_load_curve_houses"
    /\ region.self.houses # <<>>
    /\ \A i \in DOMAIN region.self.houses :
          HouseKeys \cup {"summer_temperature_limit", "winter_temperature_limit"}
              \subseteq DOMAIN region.self.houses[i]

(* C15: with resample_rule='1h' get_load_curve_houses returns 8784 rows   *)
(* for a leap year and 8760 rows for another year, and the last row is    *)
(* 31 December 23:00.                                                     *)
C15_FullYearRows ==
    (/\ LoadCurvesCalled
     /\ region.self._resample_rule.given
     /\ region.self._resample_rule.v = 60) =>
        /\ region_ret.status = "ok"
        /\ \A j \in DOMAIN region_ret.ret :
              /\ region_ret.ret[j].index.periods
                    = (IF IsLeap(region.self._year) THEN 8784 ELSE 8760)
              /\ IndexAt(region_ret.ret[j].index, region_ret.ret[j].index.periods)
                    = DateTime(region.self._year, 12, 31, 23, 0)

DailyDemandReturned ==
    /\ region_ret # NoCall
    /\ region_ret.op = "get_daily_energy_demand_houses"
    /\ region_ret.status = "ok"

\* the energy factor of the region's table for a house type and day type
RegionEnergyFactor(house_type, name, typtag) ==
    IF region.energy_factors.given
    THEN region.energy_factors.v[<<house_type, name, typtag>>]
    ELSE ReadEnergyFactors(region.try_region.v)[<<house_type, name, typtag>>]

\* annual * (1.0 / 365.0 + n_pers_we * f) of a house, over EfDen
ComputedDemand(house, annual, name, typtag) ==
    house[annual]
      * (EfScale
           + (IF house["house_type"] = "EFH" THEN house["N_Pers"] ELSE house["N_WE"])
               * RegionEnergyFactor(house["house_type"], name, typtag))

\* the energy columns that are clipped, with their annual value and factor
ClippedColumns ==
    { <<"W_TT", "W_a", "F_el_TT">>, <<"Q_TWW_TT", "Q_TWW_a", "F_TWW_TT">> }

(* C16: whenever the computed daily demand W_TT or Q_TWW_TT of a house    *)
(* for a day type is negative, get_daily_energy_demand_houses issues a    *)
(* warning, stores annual value / 365 instead and goes on; a demand that  *)
(* is not negative is stored as computed without a warning; so with       *)
(* non-negative annual values no stored W_TT or Q_TWW_TT is negative.     *)
C16_NegativeDemandClipped ==
    DailyDemandReturned =>
        \A i \in DOMAIN region.self.houses :
            LET house == region.self.houses[i]
                stored == region_ret.ret[house["name"]]
            IN \A c \in ClippedColumns : \A typtag \in DOMAIN stored[c[1]] :
                  /\ ComputedDemand(house, c[2], c[3], typtag) < 0 =>
                        /\ <<c[1], house["name"], typtag>> \in region_ret.warnings
                        /\ stored[c[1]][typtag] = house[c[2]] * EfScale
                  /\ ComputedDemand(house, c[2], c[3], typtag) >= 0 =>
                        /\ <<c[1], house["name"], typtag>> \notin region_ret.warnings
                        /\ stored[c[1]][typtag] = ComputedDemand(house, c[2], c[3], typtag)
                  /\ house[c[2]] >= 0 => stored[c[1]][typtag] >= 0

C16_Witness ==
    /\ DailyDemandReturned
    /\ \E i \in DOMAIN region.self.houses :
          LET house == region.self.houses[i]
              stored == region_ret.ret[house["name"]]
          IN /\ \E typtag \in DOMAIN stored["W_TT"] :
                   /\ ComputedDemand(house, "W_a", "F_el_TT", typtag) < 0
                   /\ <<"W_TT", house["name"], typtag>> \in region_ret.warnings
                   /\ stored["W_TT"][typtag] = house["W_a"] * EfScale
             /\ \E typtag \in DOMAIN stored["Q_TWW_TT"] :
                   /\ ComputedDemand(house, "Q_TWW_a", "F_TWW_TT", typtag) < 0
                   /\ <<"Q_TWW_TT", house["name"], typtag>> \in region_ret.warnings
             /\ \E typtag \in DOMAIN stored["W_TT"] :
                   ComputedDemand(house, "W_a", "F_el_TT", typtag) > 0

\* a list of houses with a house of another type than EFH or MFH
HasWrongHouseType(houses) ==
    \E i \in DOMAIN houses : houses[i]["house_type"] \notin HouseTypes

(* C17: a house whose house_type is neither EFH nor MFH, given to the     *)
(* constructor or to add_houses, makes the call fail with a ValueError;   *)
(* the house is not accepted or dropped.                                  *)
C17_WrongHouseTypeRefused ==
    /\ (/\ region # NoCall
        /\ region.houses.given
        /\ HasWrongHouseType(region.houses.v)) => region.status = "ValueError"
    /\ (/\ region_ret # NoCall
        /\ region_ret.op = "add_houses"
        /\ HasWrongHouseType(region_ret.houses)) => region_ret.status = "ValueError"

\* a house of the region has no temperature limits of its own
HouseWithoutLimits ==
    \E i \in DOMAIN region.self.houses :
        /\ HouseKeys \subseteq DOMAIN region.self.houses[i]
        /\ "summer_temperature_limit" \notin DOMAIN region.self.houses[i]
        /\ "winter_temperature_limit" \notin DOMAIN region.self.houses[i]

(* C18: for a house that has no summer_temperature_limit and no           *)
(* winter_temperature_limit, get_load_curve_houses succeeds and uses the  *)
(* day types of the default limits 15 and 5 (checked for the years that   *)
(* are no leap years).                                                    *)
C18_DefaultLimits ==
    (/\ region_ret # NoCall
     /\ region_ret.op = "get_load_curve_houses"
     /\ ~IsLeap(region.self._year)
     /\ HouseWithoutLimits) =>
        /\ region_ret.status = "ok"
        /\ t_limit(15, 5) \in DOMAIN region.self.type_days

---------------------------------------------------------------------------
(* HeatBuilding: the building class                                         *)

\* the spellings of the residential profile types EFH and MFH
ResidentialSpellings == {"EFH", "efh", "MFH", "Mfh"}

(* C19: constructing a HeatBuilding with a profile type other than EFH or *)
(* MFH, compared without regard to case, and a building_class other than  *)
(* 0 raises ValueError, so that no such object exists; every other        *)
(* combination is accepted by the constructor.                            *)
C19_BuildingClassChecked ==
    heat # NoCall =>
        /\ heat.status = "ValueError" <=>
              /\ heat.kwargs.shlp_type \notin ResidentialSpellings
              /\ heat.kwargs.building_class # 0
        /\ heat.status \in {"ok", "ValueError"}
        /\ heat.status = "ok" =>
              /\ heat.building_class = heat.kwargs.building_class
              /\ heat.shlp_type \in {"EFH", "MFH"} \/ heat.building_class = 0
              /\ heat.kwargs.shlp_type \in ResidentialSpellings
                    <=> heat.shlp_type \in {"EFH", "MFH"}

C19_Witness ==
    /\ heat # NoCall
    /\ heat.status = "ValueError"
    /\ heat.kwargs.shlp_type = "ghd"
    /\ heat.kwargs.building_class = 1

---------------------------------------------------------------------------
(* particular_profiles.py                                                   *)

\* datetime.time(hour, minute, 0) as the minute of the day
settime(hour, minute) == hour * 60 + minute

\* kwargs.get(key, default) for keyword arguments kept as optional values
KwGet(kwargs, key, default) ==
    IF kwargs[key].given THEN kwargs[key].v ELSE default

\* the profile factors are kept as numerators over IndScale
IndScale == 10

\* default_factors of simple_profile
default_factors ==
    [week |-> [day |-> 8, night |-> 6],
     weekend |-> [day |-> 9, night |-> 7],
     holiday |-> [day |-> 9, night |-> 7]]

\* IndustrialLoadProfile.__init__: the frame of the index with the column
\* weekday; the column ind does not exist yet
IndustrialLoadProfile(dt_index, holidays, holiday_is_sunday) ==
    [index |-> dt_index,
     weekday |-> ToArray(add_weekdays2df(dt_index, holidays, holiday_is_sunday).weekday,
                         1, dt_index.periods),
     ind |-> NoneArg]

\* the keys checked by "for key in ['week', 'weekend', 'holiday']"
FactorKeys == <<"week", "weekend", "holiday">>

\* the entry the check misses for one key: <<key>>, <<"day", key>>,
\* <<"night", key>>, or <<>> when the key is complete
missing_entry(profile_factors, key) ==
    IF key \notin DOMAIN profile_factors THEN <<key>>
    ELSE IF "day" \notin DOMAIN profile_factors[key] THEN <<"day", key>>
    ELSE IF "night" \notin DOMAIN profile_factors[key] THEN <<"night", key>>
    ELSE <<>>

\* the loop of the check: the first missing entry in the order of the keys
RECURSIVE check_profile_factors(_, _)
check_profile_factors(profile_factors, i) ==
    IF i > Len(FactorKeys) THEN <<>>
    ELSE IF missing_entry(profile_factors, FactorKeys[i]) # <<>>
    THEN missing_entry(profile_factors, FactorKeys[i])
    ELSE check_profile_factors(profile_factors, i + 1)

\* a plausible slip: include_end=False, the end of the range is left out
indexer_between_time_open(index, start_time, end_time) ==
    { k \in IndexRows(index) :
        IF start_time <= end_time
        THEN start_time <= IndexAt(index, k) % 1440 /\ IndexAt(index, k) % 1440 < end_time
        ELSE start_time <= IndexAt(index, k) % 1440 \/ IndexAt(index, k) % 1440 < end_time }

\* index.indexer_between_time(start_time, end_time, include_start=True,
\* include_end=True): the rows whose time of day lies in the closed range,
\* which runs over midnight when start_time > end_time
indexer_between_time(index, start_time, end_time) ==
    { k \in IndexRows(index) :
        IF start_time <= end_time
        THEN start_time <= IndexAt(index, k) % 1440 /\ IndexAt(index, k) % 1440 <= end_time
        ELSE start_time <= IndexAt(index, k) % 1440 \/ IndexAt(index, k) % 1440 <= end_time }

\* dataframe.loc[time_filter & day_filter, "ind"] = value
loc_set(ind, rows, weekday, days, value) ==
    [k \in DOMAIN ind |-> IF k \in rows /\ weekday[k] \in days THEN value ELSE ind[k]]

\* a plausible slip: the column ind of an earlier call is not reset to 0
ind_column_kept(self, day_mask, week, weekend, holiday, profile_factors) ==
    LET rows == IndexRows(self.index)
        night_mask == rows \ day_mask
        ind0 == IF self.ind.given THEN self.ind.v ELSE [k \in rows |-> 0]
        ind1 == loc_set(ind0, day_mask, self.weekday, week, profile_factors["week"]["day"])
        ind2 == loc_set(ind1, night_mask, self.weekday, week, profile_factors["week"]["night"])
        ind3 == loc_set(ind2, day_mask, self.weekday, weekend, profile_factors["weekend"]["day"])
        ind4 == loc_set(ind3, night_mask, self.weekday, weekend, profile_factors["weekend"]["night"])
        ind5 == loc_set(ind4, day_mask, self.weekday, holiday, profile_factors["holiday"]["day"])
        ind6 == loc_set(ind5, night_mask, self.weekday, holiday, profile_factors["holiday"]["night"])
    IN ToArray(ind6, 1, self.index.periods)

\* the column ind after the six assignments of simple_profile
ind_column(self, day_mask, week, weekend, holiday, profile_factors) ==
    LET rows == IndexRows(self.index)
        night_mask == rows \ day_mask
        ind0 == [k \in rows |-> 0]
        ind1 == loc_set(ind0, day_mask, self.weekday, week, profile_factors["week"]["day"])
        ind2 == loc_set(ind1, night_mask, self.weekday, week, profile_factors["week"]["night"])
        ind3 == loc_set(ind2, day_mask, self.weekday, weekend, profile_factors["weekend"]["day"])
        ind4 == loc_set(ind3, night_mask, self.weekday, weekend, profile_factors["weekend"]["night"])
        ind5 == loc_set(ind4, day_mask, self.weekday, holiday, profile_factors["holiday"]["day"])
        ind6 == loc_set(ind5, night_mask, self.weekday, holiday, profile_factors["holiday"]["night"])
    IN ToArray(ind6, 1, self.index.periods)

\* a plausible slip: the result is not divided by the length of a step
scaled_ind_per_step(index, ind, annual_demand) ==
    [index |-> index,
     num |-> ToArray([k \in DOMAIN ind |-> ind[k] * annual_demand], 1, Len(ind)),
     den |-> SumRange(ind, 1, Len(ind))]

\* ind / ind.sum() * annual_demand / time_interval with time_interval =
\* index.freq.nanos / 3.6e12, the hours of a step: the series holds
\* num[k] / den (NaN everywhere when the sum of ind is 0)
scaled_ind(index, ind, annual_demand) ==
    [index |-> index,
     num |-> ToArray([k \in DOMAIN ind |-> ind[k] * annual_demand * 60], 1, Len(ind)),
     den |-> SumRange(ind, 1, Len(ind)) * index.freq]

\* simple_profile, once the profile factors passed the check
simple_profile_made(self, annual_demand, ind) ==
    [status |-> "ok", missing |-> <<>>,
     self |-> [self EXCEPT !.ind = Given(ind)],
     ret |-> scaled_ind(self.index, ind, annual_demand)]

\* simple_profile(annual_demand, **kwargs)
\* a plausible slip: the column ind is reset before the factors are checked
simple_profile_reset_first(self, annual_demand, kwargs) ==
    LET am == KwGet(kwargs, "am", settime(7, 0))
        pm == KwGet(kwargs, "pm", settime(23, 30))
        week == KwGet(kwargs, "week", {1, 2, 3, 4, 5})
        weekend == KwGet(kwargs, "weekend", {6, 7})
        holiday == KwGet(kwargs, "holiday", {0})
        profile_factors == KwGet(kwargs, "profile_factors", default_factors)
    IN IF check_profile_factors(profile_factors, 1) # <<>>
       THEN [status |-> "ValueError",
             missing |-> check_profile_factors(profile_factors, 1),
             self |-> [self EXCEPT !.ind = Given([k \in IndexRows(self.index) |-> 0])]]
       ELSE simple_profile_made(self, annual_demand,
                ind_column(self, indexer_between_time(self.index, am, pm),
                           week, weekend, holiday, profile_factors))

simple_profile(self, annual_demand, kwargs) ==
    LET am == KwGet(kwargs, "am", settime(7, 0))
        pm == KwGet(kwargs, "pm", settime(23, 30))
        week == KwGet(kwargs, "week", {1, 2, 3, 4, 5})
        weekend == KwGet(kwargs, "weekend", {6, 7})
        holiday == KwGet(kwargs, "holiday", {0})
        profile_factors == KwGet(kwargs, "profile_factors", default_factors)
    IN IF check_profile_factors(profile_factors, 1) # <<>>
       THEN [status |-> "ValueError",
             missing |-> check_profile_factors(profile_factors, 1),
             self |-> self]
       ELSE simple_profile_made(self, annual_demand,
                ind_column(self, indexer_between_time(self.index, am, pm),
                           week, weekend, holiday, profile_factors))

---------------------------------------------------------------------------
(* Inputs of the IndustrialLoadProfile constructions and calls              *)

MaxRowsIlp == 4

\* Friday 2010-01-01 00:00 as in the tests, and Sunday 2010-01-03 18:00
IlpStarts == { DateTime(2010, 1, 1, 0, 0), DateTime(2010, 1, 3, 18, 0) }

\* steps of 15 minutes, one hour and six hours
IlpFreqs == { 15, 60, 360 }

IlpHolidays == { NoHolidays, Holidays({Date(2010, 1, 1)}) }

IlpAnnualDemands == { 1, 300 }

\* keyword arguments: none, the own values of the tests, a working day
\* that runs over midnight with days in no list, factors that are all 0,
\* and factors with missing entries
Kwargs(am, pm, week, weekend, holiday, profile_factors) ==
    [am |-> am, pm |-> pm, week |-> week, weekend |-> weekend,
     holiday |-> holiday, profile_factors |-> profile_factors]

IlpKwargs ==
    { Kwargs(NoneArg, NoneArg, NoneArg, NoneArg, NoneArg, NoneArg),
      Kwargs(Given(settime(6, 30)), Given(settime(22, 0)), Given({2, 3, 4, 5}),
             Given({1, 6, 7}), NoneArg,
             Given([week |-> [day |-> 6, night |-> 5],
                    weekend |-> [day |-> 7, night |-> 4],
                    holiday |-> [day |-> 8, night |-> 3]])),
      Kwargs(Given(settime(22, 0)), Given(settime(6, 0)), Given({2, 3}),
             Given({6}), Given({0, 7}), NoneArg),
      Kwargs(NoneArg, NoneArg, NoneArg, NoneArg, NoneArg,
             Given([week |-> [day |-> 0, night |-> 0],
                    weekend |-> [day |-> 0, night |-> 0],
                    holiday |-> [day |-> 0, night |-> 0]])),
      Kwargs(NoneArg, NoneArg, NoneArg, NoneArg, NoneArg,
             Given([week |-> [day |-> 8, night |-> 6],
                    holiday |-> [night |-> 7]])),
      Kwargs(NoneArg, NoneArg, NoneArg, NoneArg, NoneArg,
             Given([week |-> [day |-> 8],
                    weekend |-> [day |-> 9, night |-> 7],
                    holiday |-> [day |-> 9, night |-> 7]])) }

InitIlp ==
    /\ IdleTools /\ Idle25 /\ IdleSlp /\ IdleHeat /\ IdleVdi
    /\ ilp = NoCall
    /\ ilp_ret = NoCall

\* ilp = IndustrialLoadProfile(dt_index, holidays=..., holiday_is_sunday=...)
ConstructIlp ==
    /\ ilp = NoCall
    /\ \E start \in IlpStarts, n \in 1..MaxRowsIlp, freq \in IlpFreqs,
          holidays \in IlpHolidays, holiday_is_sunday \in BOOLEAN :
        ilp' = [op |-> "init", holidays |-> holidays,
                holiday_is_sunday |-> holiday_is_sunday,
                self |-> IndustrialLoadProfile(DateRange(start, n, freq),
                                               holidays, holiday_is_sunday)]
    /\ UNCHANGED <<ilp_ret, vars_tools, vars_25, vars_slp, vars_heat, vars_vdi>>

\* ilp.simple_profile(annual_demand, **kwargs)
CallSimpleProfile ==
    /\ ilp # NoCall
    /\ \E annual_demand \in IlpAnnualDemands, kwargs \in IlpKwargs :
        \E made \in {simple_profile(ilp.self, annual_demand, kwargs)} :
           /\ ilp' = [ilp EXCEPT !.self = made.self]
           /\ ilp_ret' = [op |-> "simple_profile",
                          annual_demand |-> annual_demand, kwargs |-> kwargs,
                          status |-> made.status, missing |-> made.missing,
                          ret |-> IF made.status = "ok" THEN made.ret ELSE <<>>]
    /\ UNCHANGED <<vars_tools, vars_25, vars_slp, vars_heat, vars_vdi>>

NextIlp ==
    \/ ConstructIlp
    \/ CallSimpleProfile

SpecIlp == InitIlp /\ [][NextIlp]_vars

---------------------------------------------------------------------------
(* IndustrialLoadProfile                                                    *)

SimpleProfileReturned ==
    /\ ilp_ret # NoCall
    /\ ilp_ret.op = "simple_profile"
    /\ ilp_ret.status = "ok"

\* the sum of the column ind left by the call
IndSum == SumRange(ilp.self.ind.v, 1, Len(ilp.self.ind.v))

(* C20: when the sum of the factors is not zero, the series returned by   *)
(* simple_profile(annual_demand) has no NaN and its sum multiplied by the *)
(* length of a step in hours equals annual_demand.                        *)
C20_SumTimesStepIsAnnual ==
    (SimpleProfileReturned /\ IndSum # 0) =>
        /\ ilp_ret.ret.den # 0
        /\ Len(ilp_ret.ret.num) = ilp.self.index.periods
        /\ SumRange(ilp_ret.ret.num, 1, Len(ilp_ret.ret.num)) * ilp.self.index.freq
              = ilp_ret.annual_demand * 60 * ilp_ret.ret.den

C20_Witness ==
    /\ SimpleProfileReturned
    /\ IndSum # 0
    /\ ilp.self.index.freq # 60
    /\ ilp.self.index.periods > 1
    /\ ilp_ret.kwargs.am.given
    /\ ilp_ret.annual_demand = 300
    /\ \E k \in DOMAIN ilp.self.ind.v : ilp.self.ind.v[k] = 0
    /\ \E k \in DOMAIN ilp.self.ind.v : ilp.self.ind.v[k] > 0

\* the keyword arguments of the last call with their defaults
CallAm == KwGet(ilp_ret.kwargs, "am", settime(7, 0))
CallPm == KwGet(ilp_ret.kwargs, "pm", settime(23, 30))
CallWeek == KwGet(ilp_ret.kwargs, "week", {1, 2, 3, 4, 5})
CallWeekend == KwGet(ilp_ret.kwargs, "weekend", {6, 7})
CallHoliday == KwGet(ilp_ret.kwargs, "holiday", {0})
CallFactors == KwGet(ilp_ret.kwargs, "profile_factors", default_factors)

\* the time of day of row k of the profile's index, in minutes
IlpTimeOfDay(k) == IndexAt(ilp.self.index, k) % 1440

\* row k falls on a holiday given to the constructor
IlpHolidayRow(k) ==
    DateOf(IndexAt(ilp.self.index, k)) \in ilp.holidays.dates

\* the lists of the call that contain the weekday class of row k
IlpGroups(k) ==
    { g \in {"week", "weekend", "holiday"} :
        ilp.self.weekday[k] \in (CASE g = "week" -> CallWeek
                                   [] g = "weekend" -> CallWeekend
                                   [] OTHER -> CallHoliday) }

(* C21 as stated: every timestep gets profile_factors[group][part], where *)
(* part is 'day' exactly when am <= time of day <= pm and 'night'         *)
(* otherwise and group is the list that contains the weekday class; with  *)
(* holiday_is_sunday=True a holiday has class 7 and gets the 'weekend'    *)
(* factors, never the 'holiday' ones.                                     *)
C21_FactorOfGroupAndPart ==
    SimpleProfileReturned =>
        \A k \in DOMAIN ilp.self.ind.v :
            LET part == IF CallAm <= IlpTimeOfDay(k) /\ IlpTimeOfDay(k) <= CallPm
                        THEN "day" ELSE "night"
            IN /\ \A g \in IlpGroups(k) :
                     IlpGroups(k) = {g} => ilp.self.ind.v[k] = CallFactors[g][part]
               /\ (ilp.holiday_is_sunday /\ IlpHolidayRow(k)) =>
                     /\ ilp.self.weekday[k] = 7
                     /\ ilp.self.ind.v[k] = CallFactors["weekend"][part]

\* the part of the day of row k: the closed range am..pm, which runs over
\* midnight when am > pm
IlpPart(k) ==
    IF CallAm <= CallPm
    THEN (IF CallAm <= IlpTimeOfDay(k) /\ IlpTimeOfDay(k) <= CallPm
          THEN "day" ELSE "night")
    ELSE (IF CallAm <= IlpTimeOfDay(k) \/ IlpTimeOfDay(k) <= CallPm
          THEN "day" ELSE "night")

\* the group of row k: the last of week, weekend, holiday whose list
\* contains the weekday class, "none" when no list does
IlpGroup(k) ==
    IF "holiday" \in IlpGroups(k) THEN "holiday"
    ELSE IF "weekend" \in IlpGroups(k) THEN "weekend"
    ELSE IF "week" \in IlpGroups(k) THEN "week"
    ELSE "none"

(* C21 amended: part is 'day' when the time of day lies in the closed     *)
(* range am..pm, a range with am > pm running over midnight; group is the *)
(* last of week, weekend, holiday whose list contains the weekday class,  *)
(* and a class in no list gets the factor 0; with holiday_is_sunday=True  *)
(* a holiday has class 7 and gets the factors of the group of class 7,    *)
(* which is 'weekend' with the default lists.                             *)
C21_FactorOfLastGroup ==
    SimpleProfileReturned =>
        \A k \in DOMAIN ilp.self.ind.v :
            /\ ilp.self.ind.v[k] = IF IlpGroup(k) = "none" THEN 0
                                   ELSE CallFactors[IlpGroup(k)][IlpPart(k)]
            /\ (ilp.holiday_is_sunday /\ IlpHolidayRow(k)) =>
                  /\ ilp.self.weekday[k] = 7
                  /\ (~ilp_ret.kwargs.weekend.given /\ ~ilp_ret.kwargs.holiday.given)
                        => IlpGroup(k) = "weekend"

C21_Witness ==
    /\ SimpleProfileReturned
    /\ CallAm > CallPm
    /\ \E k \in DOMAIN ilp.self.ind.v :
          /\ IlpTimeOfDay(k) = CallPm
          /\ ilp.self.weekday[k] = 0
          /\ ilp.self.ind.v[k] = CallFactors["holiday"]["day"]
          /\ CallFactors["holiday"]["day"] # CallFactors["holiday"]["night"]

\* the entries of profile_factors in the order the check looks at them
FactorEntries ==
    << <<"week">>, <<"day", "week">>, <<"night", "week">>,
       <<"weekend">>, <<"day", "weekend">>, <<"night", "weekend">>,
       <<"holiday">>, <<"day", "holiday">>, <<"night", "holiday">> >>

\* entry e (a key, or day/night of a key) is absent from profile_factors
EntryAbsent(profile_factors, e) ==
    IF Len(e) = 1 THEN e[1] \notin DOMAIN profile_factors
    ELSE \/ e[2] \notin DOMAIN profile_factors
         \/ e[1] \notin DOMAIN profile_factors[e[2]]

AbsentEntries(profile_factors) ==
    { i \in DOMAIN FactorEntries : EntryAbsent(profile_factors, FactorEntries[i]) }

---------------------------------------------------------------------------
(* HeatBuilding: weighted temperature and temperature intervals             *)

\* get_normalized_bdew_profile or get_bdew_profile has written the column
\* temperature_geo
TemperatureGeoWritten ==
    /\ heat # NoCall
    /\ heat.status = "ok"
    /\ heat.temperature_geo.given

\* the day of row k of the hourly index, counted from 1
HeatDay(k) == ((k - 1) \div 24) + 1

\* the daily mean temperature of day D, in units of 1/24
HeatDailyMean(D) == daily_mean(heat, 24 * (D - 1) + 1)

\* the building of the state with another hourly temperature series
HeatWithTemperature(in) ==
    [heat EXCEPT !.temperature = HourlyTemperature(in.levels, in.n)]

\* the series of input in has the temperatures of the state up to the end
\* of day D
SameUpToDay(in, D) ==
    /\ in.n = heat.df_index.periods
    /\ \A j \in 1..in.n :
          HeatDay(j) <= D => HourlyTemperature(in.levels, in.n)[j] = heat.temperature[j]

(* C23: on an hourly index every timestep of day D has the weighted       *)
(* temperature (T_D + 0.5 T_(D-1) + 0.25 T_(D-2) + 0.125 T_(D-3)) / 1.875 *)
(* of daily means, and for every day, the first three included, the value *)
(* depends only on day D and earlier days: two series that agree up to    *)
(* the end of day D give the same value on day D.                         *)
C23_WeightedTemperatureOfPastDays ==
    TemperatureGeoWritten =>
        \A k \in DOMAIN heat.temperature_geo.v :
            /\ HeatDay(k) > 3 =>
                  heat.temperature_geo.v[k]
                     = 8 * HeatDailyMean(HeatDay(k)) + 4 * HeatDailyMean(HeatDay(k) - 1)
                       + 2 * HeatDailyMean(HeatDay(k) - 2) + HeatDailyMean(HeatDay(k) - 3)
            /\ \A in \in HeatInputs :
                  SameUpToDay(in, HeatDay(k)) =>
                     df_temperature_geo(HeatWithTemperature(in))[k]
                        = heat.temperature_geo.v[k]

\* ceil(T) of a weighted temperature in units of 1/360: the least integer
\* that is not below T
CeilOfGeo(temperature_geo) ==
    CHOOSE c \in {temperature_geo \div 360, (temperature_geo \div 360) + 1} :
        360 * c >= temperature_geo /\ 360 * (c - 1) < temperature_geo

\* the intervals of the steps of 5 degrees
StepInterval(c) ==
    CASE c \in (0 - 20)..(0 - 15) -> 1
      [] c \in (0 - 14)..(0 - 10) -> 2
      [] c \in (0 - 9)..(0 - 5) -> 3
      [] c \in (0 - 4)..0 -> 4
      [] c \in 1..5 -> 5
      [] c \in 6..10 -> 6
      [] c \in 11..15 -> 7
      [] c \in 16..20 -> 8
      [] c \in 21..25 -> 9
      [] c \in 26..40 -> 10

\* the call of the state has returned or failed
HeatCallMade == TemperatureGeoWritten /\ heat_ret # NoCall

(* C24: get_temperature_interval maps a weighted temperature T with       *)
(* c = ceil(T) to interval 1 for -20 <= c <= -15, one interval per step   *)
(* of 5 degrees up to 9 for 21..25, and 10 for 26 <= c <= 40, so that the *)
(* interval never decreases as T rises; a T with c < -20 or c > 40 makes  *)
(* the call fail (KeyError) instead of being clamped to interval 1 or 10. *)
C24_TemperatureIntervals ==
    HeatCallMade =>
        LET geo == { heat.temperature_geo.v[k] : k \in DOMAIN heat.temperature_geo.v }
            supported == { T \in geo : CeilOfGeo(T) \in (0 - 20)..40 }
        IN /\ (heat_ret.ret.status = "KeyError") <=> (supported # geo)
           /\ \A T \in supported :
                 /\ temperature_rounded(T) = CeilOfGeo(T)
                 /\ HasInterval(temperature_rounded(T))
                 /\ intervals(temperature_rounded(T)) = StepInterval(CeilOfGeo(T))
           /\ \A T1, T2 \in supported :
                 T1 <= T2 =>
                    intervals(temperature_rounded(T1)) <= intervals(temperature_rounded(T2))

\* a day whose weighted temperature rounds up to 40, the last key
C24_Witness ==
    /\ HeatCallMade
    /\ heat_ret.ret.status = "ok"
    /\ \E k \in DOMAIN heat.temperature_geo.v :
          /\ CeilOfGeo(heat.temperature_geo.v[k]) = 40
          /\ intervals(temperature_rounded(heat.temperature_geo.v[k])) = 10

---------------------------------------------------------------------------
(* Region: seasons                                                          *)

\* the daily mean temperature of day k of the region, as a fraction
RegionTemperature(k) ==
    [num |-> region.self.temperature.v.num[k], den |-> region.self.temperature.v.den]

(* C25: with seasons by temperature and a winter limit below the summer   *)
(* limit, every day has exactly one season: W when the daily mean         *)
(* temperature is below the winter limit, S when it is above the summer   *)
(* limit, U otherwise; a temperature equal to a limit is a transition day. *)
C25_SeasonByTemperature ==
    TypicalDaysMade =>
        \A tl \in DOMAIN region.self.type_days :
            tl.winter < tl.summer =>
                \A k \in DOMAIN region.self.type_days[tl].day_types :
                    LET T == RegionTemperature(k)
                        season == region.self.type_days[tl].day_types[k][1]
                    IN /\ (season = "W") <=> (T.num < tl.winter * T.den)
                       /\ (season = "S") <=> (T.num > tl.summer * T.den)
                       /\ (season = "U") <=> (/\ T.num >= tl.winter * T.den
                                              /\ T.num <= tl.summer * T.den)

\* a year with a day at the winter limit and a day at the summer limit
C25_Witness ==
    /\ TypicalDaysMade
    /\ \E tl \in DOMAIN region.self.type_days :
          /\ tl.winter < tl.summer
          /\ \E k1, k2 \in DOMAIN region.self.type_days[tl].day_types :
                /\ RegionTemperature(k1).num = tl.winter * RegionTemperature(k1).den
                /\ RegionTemperature(k2).num = tl.summer * RegionTemperature(k2).den
                /\ region.self.type_days[tl].day_types[k1][1] = "U"
                /\ region.self.type_days[tl].day_types[k2][1] = "U"

---------------------------------------------------------------------------
(* The default seasons                                                      *)

\* the slices of the first ElecSlp object
SlpSlices == SeasonSlices(slp[1]._year, slp[1]._seasons)

\* the numbers of the slices that contain the time t
SlicesAt(slices, t) == { i \in DOMAIN slices : slices[i].a <= t /\ t <= slices[i].b }

\* an ElecSlp object was built without a seasons argument
DefaultSeasonsUsed == slp[1] # NoCall /\ ~slp[1].seasons.given

(* C26: the five default season ranges winter1, transition1, summer1,     *)
(* transition2, winter2 partition the year: in a leap year and in a       *)
(* common year every calendar day lies in exactly one range, and every    *)
(* 15-minute timestep of the last day of a range, up to 23:45, belongs to *)
(* that range and to no other.                                            *)
C26_DefaultSeasonsPartition ==
    DefaultSeasonsUsed =>
        \A slices \in {SlpSlices} :
            /\ { slp[1]._seasons[i].key : i \in DOMAIN slp[1]._seasons }
                  = {"winter1", "transition1", "summer1", "transition2", "winter2"}
            /\ Len(slp[1]._seasons) = 5
            /\ \A d \in 0..(DaysInYear(slp[1]._year) - 1) :
                  Cardinality(SlicesAt(slices,
                                       DateTime(slp[1]._year, 1, 1, 0, 0) + 1440 * d)) = 1
            /\ \A i \in DOMAIN slices :
                  \A q \in 0..95 :
                     SlicesAt(slices, slices[i].b - (slices[i].b % 1440) + 15 * q) = {i}

\* a leap year: 29 February lies in the first winter range
C26_Witness ==
    /\ DefaultSeasonsUsed
    /\ IsLeap(slp[1]._year)
    /\ \E i \in SlicesAt(SlpSlices, DateTime(slp[1]._year, 2, 29, 0, 0)) :
          slp[1]._seasons[i].key = "winter1"

---------------------------------------------------------------------------
(* Region: the energy factors of the caller                                 *)

\* region.energy_factors is the table as the caller passed it to the
\* constructor; region.self.energy_factors is the attribute, which is the
\* same object (self.energy_factors = energy_factors, no copy), so its
\* value is the value of the caller's table now.

(* C27: get_load_curve_houses (through get_daily_energy_demand_houses)    *)
(* never modifies the energy_factors table of the caller, also with       *)
(* zero_summer_heat_demand=True: after the call the table has the same    *)
(* F_Heiz_TT values for the day types SWX and SSX as before.              *)
C27_CallerEnergyFactorsKept ==
    (/\ region_ret # NoCall
     /\ region_ret.op = "get_load_curve_houses"
     /\ region.energy_factors.given) =>
        /\ region.self.energy_factors.given
        /\ \A key \in DOMAIN region.energy_factors.v :
              (/\ key[2] = "F_Heiz_TT"
               /\ key[3] \in {Typtag("S", "W", "X"), Typtag("S", "S", "X")}) =>
                  region.self.energy_factors.v[key] = region.energy_factors.v[key]

---------------------------------------------------------------------------
(* Region: repeated calls                                                   *)

(* C28: once get_load_curve_houses has returned, a further call on the    *)
(* same region (same houses, with or without a resample rule) returns the *)
(* same table, and the cached day types and load profiles, which are      *)
(* resampled again by the call, stay as they are.                         *)
C28_LoadCurvesRepeatable ==
    LoadCurvesReturned =>
        \A again \in {get_load_curve_houses(region.self)} :
            /\ again.status = "ok"
            /\ again.ret = region_ret.ret
            /\ again.self.type_days = region.self.type_days
            /\ again.self._load_profiles = region.self._load_profiles

\* a region with a resample rule whose profiles were resampled by the call
\* and whose table has a column that is not zero
C28_Witness ==
    /\ LoadCurvesReturned
    /\ region.self._resample_rule.given
    /\ \A tl \in DOMAIN region.self._load_profiles :
          region.self._load_profiles[tl].index.freq = region.self._resample_rule.v
    /\ \E i \in DOMAIN region_ret.ret :
          \E b \in DOMAIN region_ret.ret[i].data :
              region_ret.ret[i].data[b]["W_TT"] > 0

---------------------------------------------------------------------------
(* IndustrialLoadProfile: independence of earlier calls                     *)

\* the object as the constructor leaves it, from the arguments of the
\* construction of the state
FreshIlp ==
    IndustrialLoadProfile(ilp.self.index, ilp.holidays, ilp.holiday_is_sunday)

(* C29: the series returned by simple_profile depends only on the         *)
(* arguments of the construction and of the call: whatever calls were     *)
(* made on the object before, failed ones included, the call returns the  *)
(* series (and leaves the column ind) that the same call gives on a       *)
(* freshly constructed object.                                            *)
C29_CallIndependentOfEarlierCalls ==
    SimpleProfileReturned =>
        \A fresh \in {simple_profile(FreshIlp, ilp_ret.annual_demand, ilp_ret.kwargs)} :
            /\ fresh.status = "ok"
            /\ ilp_ret.ret = fresh.ret
            /\ ilp.self = fresh.self

\* a call that leaves rows with the factor 0 because their day is in no
\* list, where a column kept from an earlier call would show
C29_Witness ==
    /\ SimpleProfileReturned
    /\ \E k1, k2 \in DOMAIN ilp.self.ind.v :
          /\ IlpGroup(k1) = "none"
          /\ ilp.self.ind.v[k1] = 0
          /\ ilp.self.ind.v[k2] > 0

---------------------------------------------------------------------------
(* ElecSlp: the loop over the seasons                                       *)

\* create_bdew_load_profiles has returned a frame
BdewLoadProfilesCreated ==
    slp_ret # NoCall /\ slp_ret.op = "create_bdew_load_profiles"

\* the weekday class of row k of the frame
CreatedWeekday(k) ==
    add_weekdays2df(slp_ret.dt_index, slp_ret.holidays, TRUE).weekday[k]

\* the greatest number of a set of entry numbers
LastOf(S) == CHOOSE i \in S : \A j \in S : j <= i

(* C30: in create_bdew_load_profiles every timestep has the raw factor of *)
(* the last season entry, in the order of the seasons dictionary, whose   *)
(* range from 00:00 of the start day to 23:59 of the end day contains it; *)
(* a timestep in no range has the raw factor 0 in every static profile;   *)
(* overlapping and missing ranges raise no error, the frame is returned.  *)
C30_LastSeasonEntryWins ==
    BdewLoadProfilesCreated =>
        /\ slp_ret.ret.index = slp_ret.dt_index
        /\ \A slices \in {SlpSlices} :
              \A k \in IndexRows(slp_ret.dt_index) :
                 \A covering \in {SlicesAt(slices, IndexAt(slp_ret.dt_index, k))} :
                    \A c \in SeqToSet(SlpTypes) :
                       slp_ret.ret.data[k][c]
                          = IF covering = {} THEN 0
                            ELSE SelpCell(selp_series, c,
                                          PeriodOf(slp[1]._seasons[LastOf(covering)].key),
                                          CreatedWeekday(k),
                                          HourOf(IndexAt(slp_ret.dt_index, k)),
                                          MinuteOf(IndexAt(slp_ret.dt_index, k)))

\* a frame with a row in two ranges (14 September, summer1 and the
\* transition2 of the caller), whose factor is the one of the later entry
\* and not the one of the earlier entry
C30_Witness ==
    /\ BdewLoadProfilesCreated
    /\ \E k \in IndexRows(slp_ret.dt_index) :
          LET t == IndexAt(slp_ret.dt_index, k)
              covering == SlicesAt(SlpSlices, t)
          IN /\ Cardinality(covering) = 2
             /\ \E first \in covering :
                   /\ first < LastOf(covering)
                   /\ slp_ret.ret.data[k]["h0"]
                         # SelpCell(selp_series, "h0",
                                    PeriodOf(slp[1]._seasons[first].key),
                                    CreatedWeekday(k), HourOf(t), MinuteOf(t))

====
